---- MODULE Spec2Model ----
(***************************************************************************)
(* State-machine model of the SPOS simulations:                            *)
(*   - page replacement (fifo, lru, optimal),                              *)
(*     src/gemini/fourth(page replacement).cpp lines 1-126                 *)
(*   - CPU scheduling (fcfs, sjf, prioritySched, roundRobin),              *)
(*     src/gemini/third(CPU SCHEDULING).cpp                                *)
(*   - the two-pass assembler, src/gemini/first.cpp                        *)
(* Every program is single threaded; one action is one loop iteration, one *)
(* call or one return of the function named by pc.                         *)
(***************************************************************************)
EXTENDS Integers, Sequences, FiniteSets, TLC

(***************************************************************************)
(* Bounds of the explored inputs.                                          *)
(***************************************************************************)
MaxPage == 2
MaxRefs == 5
MaxCapacity == 2
MaxProcs == 2
MaxArrival == 1
MaxBurst == 2
MaxLines == 3
MaxMacroLines == 4

(***************************************************************************)
(* Program constants.                                                      *)
(***************************************************************************)
IntMax == 2147483647
NoVictim == -1
SamplePages == <<7, 0, 1, 2, 0, 3, 0, 4, 2, 3, 0, 3, 2>>
SampleCapacity == 3
Big == 1000000000

VARIABLES
    pc,         \* the function being executed
    cout,       \* the lines written to standard output, in order
    \* ---- page replacement ----
    pages,      \* the reference string
    capacity,   \* the number of frames
    i,          \* position of the loop over pages (1-based)
    frames,     \* vector<int> frames
    q,          \* fifo: queue<int> q
    lastUsed,   \* lru: unordered_map<int,int> lastUsed
    time,       \* lru: int time
    faults,     \* int faults
    loadedAt,   \* history: the position at which each resident page was loaded
    \* ---- CPU scheduling ----
    procs,      \* main's vector<Process> p
    quantum,    \* main's int quantum
    p,          \* the running policy's own copy of the process list
    t,          \* int t, the clock
    done,       \* int done
    pos,        \* fcfs: position of the loop over p (1-based)
    vis,        \* prioritySched, roundRobin: vector<int> vis
    rt,         \* roundRobin: vector<int> rt
    ready,      \* roundRobin: queue<int> ready (1-based indices)
    gantt,      \* history: the slices run so far, [idx, from, to] (idx 0: idle)
    \* ---- assembler ----
    source_code,    \* main's vector<vector<string>> source_code
    srcPos,         \* pass_one: position of the loop over source_code (1-based)
    LC,             \* pass_one: int LC
    start_address,  \* pass_one: int start_address
    program_name,   \* pass_one and main: string program_name
    SYMTAB,         \* map<string, string> SYMTAB
    LITTAB,         \* map<string, pair<string, int>> LITTAB
    intermediate_file,  \* main's vector<IntermediateLine>
    cerr,           \* the diagnostics written to standard error, in order
    start_addr,     \* main: string start_addr
    program_len,    \* main: int program_len
    object_program, \* pass_two: vector<string> object_program
    text_record_start_addr,     \* pass_two
    current_text_record_code,   \* pass_two
    intPos,         \* pass_two: position of the loop over intermediate_file
    \* ---- macroprocessor ----
    macro_source,   \* main's vector<string> source_code
    macroPos,       \* pass_one: position of the loop over source_code (1-based)
    in_macro,       \* pass_one: bool in_macro
    macro_name,     \* pass_one: string macro_name
    formal_params,  \* pass_one: vector<string> formal_params
    formal_to_placeholder,  \* pass_one: map<string, string>
    MNT,            \* map<string, MNTEntry> MNT
    MDT,            \* vector<string> MDT (MDT[k + 1] is the code's MDT[k])
    MDT_IDX,        \* int MDT_IDX
    intermediate_txt,   \* the lines of the file intermediate.txt
    output_txt,     \* the lines of the file output.txt
    readPos,        \* pass_two: the next line getline reads (1-based)
    call_name,      \* pass_two: the opcode of the call being expanded
    actual_map,     \* pass_two: map<string, string> actual_map
    current_mdt_idx,    \* pass_two: int current_mdt_idx (0-based, as in the code)
    expansion_from  \* history: the length of output.txt when the expansion began

pageVars == <<pages, capacity, i, frames, q, lastUsed, time, faults, loadedAt>>
schedVars == <<procs, quantum, p, t, done, pos, vis, rt, ready, gantt>>
asmVars ==
    <<source_code, srcPos, LC, start_address, program_name, SYMTAB, LITTAB,
      intermediate_file, cerr, start_addr, program_len, object_program,
      text_record_start_addr, current_text_record_code, intPos>>
macroVars ==
    <<macro_source, macroPos, in_macro, macro_name, formal_params,
      formal_to_placeholder, MNT, MDT, MDT_IDX, intermediate_txt, output_txt,
      readPos, call_name, actual_map, current_mdt_idx, expansion_from>>
vars == <<pc, cout, pageVars, schedVars, asmVars, macroVars>>

(***************************************************************************)
(* Generic helpers.                                                        *)
(***************************************************************************)
Range(s) == {s[k] : k \in 1..Len(s)}

SeqsUpTo(S, n) == UNION {[1..m -> S] : m \in 1..n}

EmptyMap == [x \in {} |-> 0]

\* unordered_map::operator[] read: a missing key reads as 0
MapGet(m, key) == IF key \in DOMAIN m THEN m[key] ELSE 0

\* unordered_map::operator[] write
MapPut(m, key, val) == [x \in DOMAIN m \cup {key} |-> IF x = key THEN val ELSE m[x]]

(***************************************************************************)
(* Page replacement.                                                       *)
(***************************************************************************)
\* find(frames.begin(), frames.end(), pg) != frames.end()
Resident(fr, pg) == pg \in Range(fr)

ReplaceFirstSlot(fr, old, new) == [fr EXCEPT ![1] = new]

\* std::replace(frames.begin(), frames.end(), old, new)
Replace(fr, old, new) == [k \in 1..Len(fr) |-> IF fr[k] = old THEN new ELSE fr[k]]

\* the line "Page p -> " followed by display(frames)
FaultLine(pg, fr) == [kind |-> "fault", page |-> pg, frames |-> fr]

\* the line "Page p -> No page fault"
HitLine(pg) == [kind |-> "hit", page |-> pg]

HeaderLine(name) == [kind |-> "header", name |-> name]

TotalLine(n) == [kind |-> "total", faults |-> n]

PageInputs ==
    {<<SamplePages, SampleCapacity>>}
        \cup (SeqsUpTo(0..MaxPage, MaxRefs) \X (1..MaxCapacity))

PageIdle ==
    /\ pages = <<>>
    /\ capacity = 0
    /\ i = 1
    /\ frames = <<>>
    /\ q = <<>>
    /\ lastUsed = EmptyMap
    /\ time = 0
    /\ faults = 0
    /\ loadedAt = EmptyMap

SchedIdle ==
    /\ procs = <<>>
    /\ quantum = 0
    /\ p = <<>>
    /\ t = 0
    /\ done = 0
    /\ pos = 1
    /\ vis = <<>>
    /\ rt = <<>>
    /\ ready = <<>>
    /\ gantt = <<>>

AsmIdle ==
    /\ source_code = <<>>
    /\ srcPos = 1
    /\ LC = 0
    /\ start_address = 0
    /\ program_name = <<>>
    /\ SYMTAB = EmptyMap
    /\ LITTAB = EmptyMap
    /\ intermediate_file = <<>>
    /\ cerr = <<>>
    /\ start_addr = <<>>
    /\ program_len = 0
    /\ object_program = <<>>
    /\ text_record_start_addr = <<>>
    /\ current_text_record_code = <<>>
    /\ intPos = 1

MacroIdle ==
    /\ macro_source = <<>>
    /\ macroPos = 1
    /\ in_macro = FALSE
    /\ macro_name = <<>>
    /\ formal_params = <<>>
    /\ formal_to_placeholder = EmptyMap
    /\ MNT = EmptyMap
    /\ MDT = <<>>
    /\ MDT_IDX = 0
    /\ intermediate_txt = <<>>
    /\ output_txt = <<>>
    /\ readPos = 1
    /\ call_name = <<>>
    /\ actual_map = EmptyMap
    /\ current_mdt_idx = 0
    /\ expansion_from = 0

PageInit ==
    /\ SchedIdle
    /\ AsmIdle
    /\ MacroIdle
    /\ pc = "main"
    /\ cout = <<>>
    /\ \E in \in PageInputs : pages = in[1] /\ capacity = in[2]
    /\ i = 1
    /\ frames = <<>>
    /\ q = <<>>
    /\ lastUsed = EmptyMap
    /\ time = 0
    /\ faults = 0
    /\ loadedAt = EmptyMap

\* entry of a policy function: its header line and its fresh locals
EnterPolicy(from, name) ==
    /\ pc = from
    /\ pc' = name
    /\ cout' = Append(cout, HeaderLine(name))
    /\ i' = 1
    /\ frames' = <<>>
    /\ q' = <<>>
    /\ lastUsed' = EmptyMap
    /\ time' = 0
    /\ faults' = 0
    /\ loadedAt' = EmptyMap
    /\ UNCHANGED <<pages, capacity, schedVars, asmVars, macroVars>>

LeavePolicyPrintsFrameCount(name, to) ==
    /\ pc = name
    /\ i > Len(pages)
    /\ pc' = to
    /\ cout' = Append(cout, TotalLine(Len(frames)))
    /\ UNCHANGED <<pageVars, schedVars, asmVars, macroVars>>

\* end of a policy function: the total line, and the return to main
LeavePolicy(name, to) ==
    /\ pc = name
    /\ i > Len(pages)
    /\ pc' = to
    /\ cout' = Append(cout, TotalLine(faults))
    /\ UNCHANGED <<pageVars, schedVars, asmVars, macroVars>>

\* ---- fifo ----
FifoVictimNewest(qq) == qq[Len(qq)]

\* int victim = q.front()
FifoVictim(qq) == Head(qq)

FifoCall == EnterPolicy("main", "fifo")

FifoStep ==
    /\ pc = "fifo"
    /\ i <= Len(pages)
    /\ LET pg == pages[i] IN
        IF ~Resident(frames, pg)
        THEN /\ IF Len(frames) < capacity
                THEN /\ frames' = Append(frames, pg)
                     /\ q' = Append(q, pg)
                ELSE LET victim == FifoVictim(q) IN
                     /\ q' = Append(Tail(q), pg)
                     /\ frames' = Replace(frames, victim, pg)
             /\ faults' = faults + 1
             /\ cout' = Append(cout, FaultLine(pg, frames'))
             /\ loadedAt' = MapPut(loadedAt, pg, i)
        ELSE /\ cout' = Append(cout, HitLine(pg))
             /\ UNCHANGED <<frames, q, faults, loadedAt>>
    /\ i' = i + 1
    /\ UNCHANGED <<pc, pages, capacity, lastUsed, time, schedVars, asmVars, macroVars>>

FifoReturn == LeavePolicy("fifo", "main_lru")

\* ---- lru ----
RECURSIVE LruScan(_, _, _, _, _)
\* for (int f : frames) if (lastUsed[f] < minTime) { minTime = ...; lruPage = f; }
LruScan(fr, lu, k, lruPage, minTime) ==
    IF k > Len(fr) THEN lruPage
    ELSE IF MapGet(lu, fr[k]) < minTime
         THEN LruScan(fr, lu, k + 1, fr[k], MapGet(lu, fr[k]))
         ELSE LruScan(fr, lu, k + 1, lruPage, minTime)

LruVictimMostRecent(fr, lu) ==
    CHOOSE f \in Range(fr) : \A g \in Range(fr) : MapGet(lu, g) <= MapGet(lu, f)

\* int lruPage = frames[0], minTime = INT_MAX; ... the scan
LruVictim(fr, lu) == LruScan(fr, lu, 1, fr[1], IntMax)

\* lastUsed[f] in the scan creates a zero entry for a key that is missing
LruTouched(fr, lu) == [x \in DOMAIN lu \cup Range(fr) |-> MapGet(lu, x)]

LruCall == EnterPolicy("main_lru", "lru")

LruStep ==
    /\ pc = "lru"
    /\ i <= Len(pages)
    /\ time' = time + 1
    /\ LET pg == pages[i] IN
        IF ~Resident(frames, pg)
        THEN /\ IF Len(frames) < capacity
                THEN /\ frames' = Append(frames, pg)
                     /\ lastUsed' = MapPut(lastUsed, pg, time')
                ELSE /\ frames' = Replace(frames, LruVictim(frames, lastUsed), pg)
                     /\ lastUsed' = MapPut(LruTouched(frames, lastUsed), pg, time')
             /\ faults' = faults + 1
             /\ cout' = Append(cout, FaultLine(pg, frames'))
             /\ loadedAt' = MapPut(loadedAt, pg, i)
        ELSE /\ cout' = Append(cout, HitLine(pg))
             /\ lastUsed' = MapPut(lastUsed, pg, time')
             /\ UNCHANGED <<frames, faults, loadedAt>>
    /\ i' = i + 1
    /\ UNCHANGED <<pc, pages, capacity, q, schedVars, asmVars, macroVars>>

LruReturn == LeavePolicy("lru", "main_optimal")

\* ---- optimal ----
\* for (j = i + 1; j < pages.size(); j++) if (pages[j] == f) break;
\* (1-based: the result Len(pgs) + 1 stands for j == pages.size())
NextUse(pgs, at, f) ==
    IF \E j \in (at + 1)..Len(pgs) : pgs[j] = f
    THEN CHOOSE j \in (at + 1)..Len(pgs) :
            pgs[j] = f /\ \A m \in (at + 1)..(j - 1) : pgs[m] # f
    ELSE Len(pgs) + 1

RECURSIVE OptScan(_, _, _, _, _, _)
\* for (int f : frames) { ...; if (j == size) { victim = f; break; }
\*                        if (j > farthest) { farthest = j; victim = f; } }
OptScan(pgs, at, fr, k, victim, farthest) ==
    IF k > Len(fr) THEN victim
    ELSE LET f == fr[k]
             j == NextUse(pgs, at, f)
         IN IF j = Len(pgs) + 1 THEN f
            ELSE IF j > farthest
                 THEN OptScan(pgs, at, fr, k + 1, f, j)
                 ELSE OptScan(pgs, at, fr, k + 1, victim, farthest)

OptVictimSoonestUse(pgs, at, fr) ==
    fr[CHOOSE k \in 1..Len(fr) :
          \A m \in 1..Len(fr) : NextUse(pgs, at, fr[k]) <= NextUse(pgs, at, fr[m])]

\* int victim = -1, farthest = i + 1; ... the scan
OptVictim(pgs, at, fr) == OptScan(pgs, at, fr, 1, NoVictim, at + 1)

OptimalCall == EnterPolicy("main_optimal", "optimal")

OptimalStep ==
    /\ pc = "optimal"
    /\ i <= Len(pages)
    /\ LET pg == pages[i] IN
        IF ~Resident(frames, pg)
        THEN /\ IF Len(frames) < capacity
                THEN frames' = Append(frames, pg)
                ELSE frames' = Replace(frames, OptVictim(pages, i, frames), pg)
             /\ faults' = faults + 1
             /\ cout' = Append(cout, FaultLine(pg, frames'))
             /\ loadedAt' = MapPut(loadedAt, pg, i)
        ELSE /\ cout' = Append(cout, HitLine(pg))
             /\ UNCHANGED <<frames, faults, loadedAt>>
    /\ i' = i + 1
    /\ UNCHANGED <<pc, pages, capacity, q, lastUsed, time, schedVars, asmVars, macroVars>>

OptimalReturn == LeavePolicy("optimal", "done")

PageNext ==
    \/ FifoCall \/ FifoStep \/ FifoReturn
    \/ LruCall \/ LruStep \/ LruReturn
    \/ OptimalCall \/ OptimalStep \/ OptimalReturn

SpecPage == PageInit /\ [][PageNext]_vars

(***************************************************************************)
(* Page replacement: the claims.                                           *)
(***************************************************************************)
\* the loop of the policy `name` is about to process pages[i]
AtReference(name) == pc = name /\ i <= Len(pages)

\* the reference at hand misses and every frame is occupied
FullMiss(name) ==
    /\ AtReference(name)
    /\ ~Resident(frames, pages[i])
    /\ Len(frames) = capacity

\* the frame set after the step is the one before with slot k given to pages[i]
SlotReplaced(k) == frames' = [frames EXCEPT ![k] = pages[i]]

\* the position of the most recent reference to page f before position at
LastRef(f, at) ==
    CHOOSE m \in 1..(at - 1) :
        pages[m] = f /\ \A n \in (m + 1)..(at - 1) : pages[n] # f

\* the lines written since the last header line
Section ==
    LET heads == {k \in 1..Len(cout) : cout[k].kind = "header"}
        last == CHOOSE k \in heads : \A m \in heads : m <= k
    IN IF heads = {} THEN <<>> ELSE SubSeq(cout, last + 1, Len(cout))

FaultLines(sec) == Cardinality({k \in 1..Len(sec) : sec[k].kind = "fault"})

\* C1: in fifo, on a miss with all frames occupied the evicted page is the
\* resident page loaded earliest, the new page takes exactly its slot, and a
\* hit leaves the eviction order (the queue) as it is.
C1_FifoEvictsEarliestLoaded ==
    [][ AtReference("fifo") =>
          /\ FullMiss("fifo") =>
                \E k \in 1..Len(frames) :
                    /\ \A m \in (1..Len(frames)) \ {k} :
                          loadedAt[frames[k]] < loadedAt[frames[m]]
                    /\ SlotReplaced(k)
                    /\ ~Resident(frames', frames[k])
          /\ Resident(frames, pages[i]) =>
                q' = q /\ frames' = frames /\ loadedAt' = loadedAt ]_vars

\* C1 witness: fifo has evicted (more faults than frames) and has had a hit
C1_Witness ==
    /\ pc = "fifo"
    /\ capacity >= 2
    /\ faults > capacity + 1
    /\ \E k \in 1..Len(Section) : Section[k].kind = "hit"

\* C2: in lru, on a miss with all frames occupied the evicted page is the
\* resident page whose most recent reference (load or hit) is the oldest.
C2_LruEvictsLeastRecentlyUsed ==
    [][ FullMiss("lru") =>
          \E k \in 1..Len(frames) :
              /\ \A m \in (1..Len(frames)) \ {k} :
                    LastRef(frames[k], i) < LastRef(frames[m], i)
              /\ SlotReplaced(k)
              /\ ~Resident(frames', frames[k]) ]_vars

\* C2 witness: lru has evicted a page that was not the earliest loaded one:
\* a page loaded before the others is still resident after an eviction
C2_Witness ==
    /\ pc = "lru"
    /\ capacity >= 2
    /\ faults > capacity
    /\ \E k \in 1..Len(Section) : Section[k].kind = "hit"
    /\ \E f \in Range(frames) : loadedAt[f] = 1

\* C3: in optimal, on a miss with all frames occupied, a resident page that
\* does not occur again is evicted if there is one; otherwise the resident
\* page whose next occurrence is farthest is evicted.
C3_OptimalEvictsFarthest ==
    [][ FullMiss("optimal") =>
          LET never == {k \in 1..Len(frames) :
                            NextUse(pages, i, frames[k]) = Len(pages) + 1}
          IN \E k \in 1..Len(frames) :
                /\ IF never # {}
                   THEN k \in never
                   ELSE \A m \in (1..Len(frames)) \ {k} :
                           NextUse(pages, i, frames[m]) < NextUse(pages, i, frames[k])
                /\ SlotReplaced(k)
                /\ ~Resident(frames', frames[k]) ]_vars

\* C4: a fault is counted exactly when the referenced page is not resident;
\* the reported total is the number of misses; a hit changes neither the fault
\* count nor the frame set.
C4_FaultIffMiss ==
    /\ [][ \A name \in {"fifo", "lru", "optimal"} :
             AtReference(name) =>
                IF Resident(frames, pages[i])
                THEN /\ faults' = faults
                     /\ frames' = frames
                     /\ cout' = Append(cout, HitLine(pages[i]))
                ELSE /\ faults' = faults + 1
                     /\ cout'[Len(cout')].kind = "fault" ]_vars
    /\ [][ \A name \in {"fifo", "lru", "optimal"} :
             (pc = name /\ pc' # name) =>
                /\ cout' = Append(cout, TotalLine(faults))
                /\ faults = FaultLines(Section)
                /\ Len(Section) = Len(pages) ]_vars

\* C4 witness: a policy has returned after both hits and misses
C4_Witness ==
    /\ pc = "done"
    /\ \E k \in 1..Len(Section) : Section[k].kind = "hit"
    /\ cout[Len(cout)].kind = "total"
    /\ cout[Len(cout)].faults >= 3

(***************************************************************************)
(* CPU scheduling.                                                         *)
(***************************************************************************)
\* struct Process { int pid, at, bt, prio, ct, tat, wt, rt; }, as main
\* initialises it: the fields not listed are zero
Process(pid, at, bt, prio) ==
    [pid |-> pid, at |-> at, bt |-> bt, prio |-> prio,
     ct |-> 0, tat |-> 0, wt |-> 0, rt |-> 0]

Max(a, b) == IF a >= b THEN a ELSE b

Min(a, b) == IF a <= b THEN a ELSE b

\* the process lists explored: 1..MaxProcs processes, pid = position.  The
\* policies only compare priorities, so MaxProcs priority levels give every
\* ordering; a quantum above the largest burst acts like the largest burst.
ProcessLists ==
    UNION {
        {[m \in 1..n |-> Process(m, f[m][1], f[m][2], f[m][3])] :
            f \in [1..n -> (0..MaxArrival) \X (1..MaxBurst) \X (1..MaxProcs)]} :
        n \in 1..MaxProcs}

Quanta == 1..MaxBurst

SchedInit ==
    /\ PageIdle
    /\ AsmIdle
    /\ MacroIdle
    /\ pc = "main"
    /\ cout = <<>>
    /\ procs \in ProcessLists
    /\ quantum = 0
    /\ p = <<>>
    /\ t = 0
    /\ done = 0
    /\ pos = 1
    /\ vis = <<>>
    /\ rt = <<>>
    /\ ready = <<>>
    /\ gantt = <<>>

Slice(idx, from, to) == [idx |-> idx, from |-> from, to |-> to]

RECURSIVE SumOf(_, _)
SumOf(ps, field) ==
    IF ps = <<>> THEN 0 ELSE ps[1][field] + SumOf(Tail(ps), field)

\* display: x.tat = x.ct - x.at; x.wt = x.tat - x.bt for every process
WithTimes(ps) ==
    [m \in 1..Len(ps) |->
        [ps[m] EXCEPT !.tat = ps[m].ct - ps[m].at,
                      !.wt = (ps[m].ct - ps[m].at) - ps[m].bt]]

\* display: the column line, one row per process, the two averages (a sum
\* over n, kept as numerator and denominator)
DisplayLines(ps) ==
    LET rows == WithTimes(ps) IN
    <<[kind |-> "columns"]>>
        \o [m \in 1..Len(rows) |-> [kind |-> "row", proc |-> rows[m]]]
        \o <<[kind |-> "avgTAT", num |-> SumOf(rows, "tat"), den |-> Len(rows)],
             [kind |-> "avgWT", num |-> SumOf(rows, "wt"), den |-> Len(rows)]>>

\* the locals of the running policy, as one record
Local ==
    [p |-> p, t |-> t, done |-> done, pos |-> pos, vis |-> vis, rt |-> rt,
     ready |-> ready, gantt |-> gantt]

SetLocal(st) ==
    /\ p' = st.p
    /\ t' = st.t
    /\ done' = st.done
    /\ pos' = st.pos
    /\ vis' = st.vis
    /\ rt' = st.rt
    /\ ready' = st.ready
    /\ gantt' = st.gantt

\* the locals at the entry of a policy that works on the list ps
Entry(ps) ==
    [p |-> ps, t |-> 0, done |-> 0, pos |-> 1,
     vis |-> [m \in 1..Len(ps) |-> 0], rt |-> [m \in 1..Len(ps) |-> ps[m].bt],
     ready |-> <<>>, gantt |-> <<>>]

\* main calls a policy, which starts on its own copy of the list
Call(name, st) ==
    /\ pc = "main"
    /\ pc' = name
    /\ SetLocal(st)
    /\ UNCHANGED <<cout, procs, pageVars, asmVars, macroVars>>

\* one iteration of the policy's loop
Iterate(name, st) ==
    /\ pc = name
    /\ SetLocal(st)
    /\ UNCHANGED <<pc, cout, procs, quantum, pageVars, asmVars, macroVars>>

\* the end of a policy: its header line, display(p), the return to main
Finish(name) ==
    /\ pc = name
    /\ pc' = "done"
    /\ cout' = cout \o <<HeaderLine(name)>> \o DisplayLines(p)
    /\ p' = WithTimes(p)
    /\ UNCHANGED <<procs, quantum, t, done, pos, vis, rt, ready, gantt, pageVars, asmVars, macroVars>>

Injections(n) == {f \in [1..n -> 1..n] : \A a, b \in 1..n : f[a] = f[b] => a = b}

\* sort(p.begin(), p.end(), a.at < b.at): std::sort leaves the order of
\* processes with equal arrival time unspecified
SortedByArrival(ps) ==
    {[m \in 1..Len(ps) |-> ps[f[m]]] :
        f \in {g \in Injections(Len(ps)) :
                 \A a, b \in 1..Len(ps) : a < b => ps[g[a]].at <= ps[g[b]].at}}

\* ---- fcfs ----
FcfsStartIgnoresClock(clock, x) == x.at

FcfsStartLate(clock, x) == Max(clock, x.at) + 1

\* t = max(t, x.at)
FcfsStart(clock, x) == Max(clock, x.at)

\* for (auto &x : p) { t = max(t, x.at); t += x.bt; x.ct = t; }
FcfsIter(st) ==
    LET start == FcfsStart(st.t, st.p[st.pos])
        end == start + st.p[st.pos].bt
    IN [st EXCEPT !.t = end,
                  !.p[st.pos].ct = end,
                  !.pos = st.pos + 1,
                  !.gantt = Append(st.gantt, Slice(st.pos, start, end))]

FcfsMore(st) == st.pos <= Len(st.p)

FcfsCall ==
    /\ pc = "main"
    /\ \E sorted \in SortedByArrival(procs) : Call("fcfs", Entry(sorted))
    /\ UNCHANGED quantum

FcfsStep ==
    /\ pc = "fcfs"
    /\ FcfsMore(Local)
    /\ Iterate("fcfs", FcfsIter(Local))

FcfsReturn ==
    /\ pc = "fcfs"
    /\ ~FcfsMore(Local)
    /\ Finish("fcfs")

\* ---- sjf ----
RECURSIVE SjfScan(_, _, _, _, _)
\* for (i = 0; i < n; i++) if (p[i].at <= t && p[i].rt > 0 && p[i].rt < mn) ...
\* (1-based: idx 0 stands for the code's -1)
SjfScan(ps, clock, m, idx, mn) ==
    IF m > Len(ps) THEN idx
    ELSE IF ps[m].at <= clock /\ ps[m].rt > 0 /\ ps[m].rt < mn
         THEN SjfScan(ps, clock, m + 1, m, ps[m].rt)
         ELSE SjfScan(ps, clock, m + 1, idx, mn)

SjfPickFirstArrived(ps, clock) ==
    IF \E m \in 1..Len(ps) : ps[m].at <= clock /\ ps[m].rt > 0
    THEN CHOOSE m \in 1..Len(ps) :
            /\ ps[m].at <= clock /\ ps[m].rt > 0
            /\ \A n \in 1..(m - 1) : ~(ps[n].at <= clock /\ ps[n].rt > 0)
    ELSE 0

SjfPickLongestRemaining(ps, clock) ==
    LET cand == {m \in 1..Len(ps) : ps[m].at <= clock /\ ps[m].rt > 0} IN
    IF cand = {} THEN 0
    ELSE CHOOSE m \in cand : \A n \in cand : ps[n].rt <= ps[m].rt

\* int idx = -1, mn = 1e9; ... the scan
SjfPick(ps, clock) == SjfScan(ps, clock, 1, 0, Big)

\* for (auto &x : p) x.rt = x.bt;
SjfEntry(ps) == Entry([m \in 1..Len(ps) |-> [ps[m] EXCEPT !.rt = ps[m].bt]])

\* the body of while (done < n)
SjfIter(st) ==
    LET idx == SjfPick(st.p, st.t) IN
    IF idx = 0
    THEN [st EXCEPT !.t = st.t + 1,
                    !.gantt = Append(st.gantt, Slice(0, st.t, st.t + 1))]
    ELSE LET left == st.p[idx].rt - 1
             ran == [st EXCEPT !.p[idx].rt = left,
                               !.t = st.t + 1,
                               !.gantt = Append(st.gantt, Slice(idx, st.t, st.t + 1))]
         IN IF left = 0
            THEN [ran EXCEPT !.p[idx].ct = ran.t, !.done = st.done + 1]
            ELSE ran

SjfMore(st) == st.done < Len(st.p)

SjfCall ==
    /\ pc = "main"
    /\ Call("sjf", SjfEntry(procs))
    /\ UNCHANGED quantum

SjfStep ==
    /\ pc = "sjf"
    /\ SjfMore(Local)
    /\ Iterate("sjf", SjfIter(Local))

SjfReturn ==
    /\ pc = "sjf"
    /\ ~SjfMore(Local)
    /\ Finish("sjf")

\* ---- prioritySched ----
RECURSIVE PriorityScan(_, _, _, _, _, _)
\* for (i ...) if (!vis[i] && p[i].at <= t && p[i].prio < best) ...
PriorityScan(ps, seen, clock, m, idx, best) ==
    IF m > Len(ps) THEN idx
    ELSE IF seen[m] = 0 /\ ps[m].at <= clock /\ ps[m].prio < best
         THEN PriorityScan(ps, seen, clock, m + 1, m, ps[m].prio)
         ELSE PriorityScan(ps, seen, clock, m + 1, idx, best)

PriorityPickLargest(ps, seen, clock) ==
    LET cand == {m \in 1..Len(ps) : seen[m] = 0 /\ ps[m].at <= clock} IN
    IF cand = {} THEN 0
    ELSE CHOOSE m \in cand : \A n \in cand : ps[n].prio <= ps[m].prio

\* int idx = -1, best = 1e9; ... the scan
PriorityPick(ps, seen, clock) == PriorityScan(ps, seen, clock, 1, 0, Big)

\* the body of while (done < p.size())
PriorityIter(st) ==
    LET idx == PriorityPick(st.p, st.vis, st.t) IN
    IF idx = 0
    THEN [st EXCEPT !.t = st.t + 1,
                    !.gantt = Append(st.gantt, Slice(0, st.t, st.t + 1))]
    ELSE LET end == st.t + st.p[idx].bt IN
         [st EXCEPT !.t = end,
                    !.p[idx].ct = end,
                    !.vis[idx] = 1,
                    !.done = st.done + 1,
                    !.gantt = Append(st.gantt, Slice(idx, st.t, end))]

PriorityMore(st) == st.done < Len(st.p)

PriorityCall ==
    /\ pc = "main"
    /\ \E sorted \in SortedByArrival(procs) : Call("priority", Entry(sorted))
    /\ UNCHANGED quantum

PriorityStep ==
    /\ pc = "priority"
    /\ PriorityMore(Local)
    /\ Iterate("priority", PriorityIter(Local))

PriorityReturn ==
    /\ pc = "priority"
    /\ ~PriorityMore(Local)
    /\ Finish("priority")

\* ---- roundRobin ----
RECURSIVE AdmitWithoutMark(_, _, _, _, _)
AdmitWithoutMark(ps, clock, m, rdy, seen) ==
    IF m > Len(ps) THEN <<rdy, seen>>
    ELSE IF seen[m] = 0 /\ ps[m].at <= clock
         THEN AdmitWithoutMark(ps, clock, m + 1, Append(rdy, m), seen)
         ELSE AdmitWithoutMark(ps, clock, m + 1, rdy, seen)

RECURSIVE Admit(_, _, _, _, _)
\* for (i ...) if (!vis[i] && p[i].at <= t) { ready.push(i); vis[i] = 1; }
\* the result is <<ready, vis>>
Admit(ps, clock, m, rdy, seen) ==
    IF m > Len(ps) THEN <<rdy, seen>>
    ELSE IF seen[m] = 0 /\ ps[m].at <= clock
         THEN Admit(ps, clock, m + 1, Append(rdy, m), [seen EXCEPT ![m] = 1])
         ELSE Admit(ps, clock, m + 1, rdy, seen)

ExecWholeQuantum(qt, left) == qt

\* int exec = min(q, rt[i])
Exec(qt, left) == Min(qt, left)

RequeueAtFront(rdy, idx) == <<idx>> \o rdy

\* else ready.push(i): the process that ran and is not finished goes to the
\* back of the queue, after the admissions that follow its slice
Requeue(rdy, idx) == Append(rdy, idx)

\* the body of while (done < n), with quantum qt
RoundRobinIter(st, qt) ==
    LET top == Admit(st.p, st.t, 1, st.ready, st.vis) IN
    IF top[1] = <<>>
    THEN [st EXCEPT !.t = st.t + 1,
                    !.ready = top[1],
                    !.vis = top[2],
                    !.gantt = Append(st.gantt, Slice(0, st.t, st.t + 1))]
    ELSE LET idx == Head(top[1])
             exec == Exec(qt, st.rt[idx])
             left == st.rt[idx] - exec
             end == st.t + exec
             after == Admit(st.p, end, 1, Tail(top[1]), top[2])
             ran == [st EXCEPT !.rt[idx] = left,
                               !.t = end,
                               !.vis = after[2],
                               !.gantt = Append(st.gantt, Slice(idx, st.t, end))]
         IN IF left = 0
            THEN [ran EXCEPT !.p[idx].ct = end,
                             !.done = st.done + 1,
                             !.ready = after[1]]
            ELSE [ran EXCEPT !.ready = Requeue(after[1], idx)]

RoundRobinMore(st) == st.done < Len(st.p)

RoundRobinCall ==
    /\ pc = "main"
    /\ \E qt \in Quanta : Call("rr", Entry(procs)) /\ quantum' = qt

RoundRobinStep ==
    /\ pc = "rr"
    /\ RoundRobinMore(Local)
    /\ Iterate("rr", RoundRobinIter(Local, quantum))

RoundRobinReturn ==
    /\ pc = "rr"
    /\ ~RoundRobinMore(Local)
    /\ Finish("rr")

SchedNext ==
    \/ FcfsCall \/ FcfsStep \/ FcfsReturn
    \/ SjfCall \/ SjfStep \/ SjfReturn
    \/ PriorityCall \/ PriorityStep \/ PriorityReturn
    \/ RoundRobinCall \/ RoundRobinStep \/ RoundRobinReturn

SpecSched == SchedInit /\ [][SchedNext]_vars

\* ---- the policies as whole functions: the locals when the loop ends ----
RECURSIVE FcfsRun(_)
FcfsRun(st) == IF FcfsMore(st) THEN FcfsRun(FcfsIter(st)) ELSE st

RECURSIVE SjfRun(_)
SjfRun(st) == IF SjfMore(st) THEN SjfRun(SjfIter(st)) ELSE st

RECURSIVE PriorityRun(_)
PriorityRun(st) == IF PriorityMore(st) THEN PriorityRun(PriorityIter(st)) ELSE st

RECURSIVE RoundRobinRun(_, _)
RoundRobinRun(st, qt) ==
    IF RoundRobinMore(st) THEN RoundRobinRun(RoundRobinIter(st, qt), qt) ELSE st

\* display's "Average WT" of a finished policy, as [num, den]
AvgWT(st) == [num |-> SumOf(WithTimes(st.p), "wt"), den |-> Len(st.p)]

\* the averages fcfs, prioritySched and roundRobin can print for the list ps
FcfsAverages(ps) == {AvgWT(FcfsRun(Entry(srt))) : srt \in SortedByArrival(ps)}

PriorityAverages(ps) == {AvgWT(PriorityRun(Entry(srt))) : srt \in SortedByArrival(ps)}

RoundRobinAverages(ps) == {AvgWT(RoundRobinRun(Entry(ps), qt)) : qt \in Quanta}

(***************************************************************************)
(* CPU scheduling: the claims.                                             *)
(***************************************************************************)
\* the policy `name` has printed its table and returned
Finished(name) == pc = "done" /\ cout # <<>> /\ cout[1].name = name

\* the time units process idx has run according to the slices sl
RECURSIVE UnitsRun(_, _)
UnitsRun(sl, idx) ==
    IF sl = <<>> THEN 0
    ELSE (IF sl[1].idx = idx THEN sl[1].to - sl[1].from ELSE 0) + UnitsRun(Tail(sl), idx)

\* the processes whose field differs between the list before and after a step
Changed(field) == {m \in 1..Len(p) : p'[m][field] # p[m][field]}

RatLeq(a, b) == a.num * b.den <= b.num * a.den

\* C5: fcfs serves the processes in non-decreasing arrival order, and each
\* completion time is max(completion of the process served before it (0 for
\* the first), its own arrival) plus its burst.
C5_FcfsArrivalOrderAndCompletion ==
    pc = "fcfs" =>
        /\ Len(p) = Len(procs)
        /\ \A x \in Range(procs) : \E m \in 1..Len(p) :
              p[m].pid = x.pid /\ p[m].at = x.at /\ p[m].bt = x.bt
        /\ Len(gantt) = pos - 1
        /\ \A m \in 1..(pos - 1) :
              /\ gantt[m].idx = m
              /\ m > 1 => p[m - 1].at <= p[m].at
              /\ p[m].ct = Max(IF m = 1 THEN 0 ELSE p[m - 1].ct, p[m].at) + p[m].bt
              /\ gantt[m].to = p[m].ct
              /\ gantt[m].from = p[m].ct - p[m].bt

\* C5 witness: fcfs has served a list that main gave in another order; one
\* process waited for its predecessor
C5_Witness ==
    /\ pc = "fcfs"
    /\ pos > Len(p)
    /\ Len(p) >= 2
    /\ p[1].pid # 1
    /\ p[1].at < p[2].at
    /\ p[2].ct > p[2].at + p[2].bt

\* C6: in sjf, in every time unit with an arrived unfinished process, the one
\* that runs has the smallest remaining time among them, ties to the lowest
\* index; the completion time is the clock at which the remaining time
\* reaches zero, and the process has then run for exactly its burst.
C6_SjfRunsShortestRemaining ==
    [][ (pc = "sjf" /\ pc' = "sjf") =>
          LET cand == {m \in 1..Len(p) : p[m].at <= t /\ p[m].rt > 0} IN
          /\ t' = t + 1
          /\ IF cand = {}
             THEN p' = p
             ELSE \E x \in cand :
                    /\ \A m \in cand : p[x].rt <= p[m].rt
                    /\ \A m \in cand : p[m].rt = p[x].rt => x <= m
                    /\ Changed("rt") = {x}
                    /\ p'[x].rt = p[x].rt - 1
                    /\ gantt' = Append(gantt, Slice(x, t, t + 1))
                    /\ IF p'[x].rt = 0
                       THEN /\ Changed("ct") = {x}
                            /\ p'[x].ct = t'
                            /\ UnitsRun(gantt', x) = p[x].bt
                            /\ done' = done + 1
                       ELSE Changed("ct") = {} /\ done' = done ]_vars

\* C6 witness: sjf has finished a list in which a process was preempted
C6_Witness ==
    /\ pc = "sjf"
    /\ done = Len(p)
    /\ \E a, b, c \in 1..Len(gantt) :
          /\ a < b /\ b < c
          /\ gantt[a].idx # 0 /\ gantt[b].idx # 0
          /\ gantt[a].idx = gantt[c].idx /\ gantt[a].idx # gantt[b].idx

C8_RoundRobinSlice ==
    /\ [][ (pc = "rr" /\ pc' = "rr") =>
             LET new == {m \in 1..Len(p) : vis[m] = 0 /\ p[m].at <= t}
                 front == IF ready # <<>> THEN Head(ready)
                          ELSE CHOOSE m \in new : \A n \in new : m <= n
             IN IF ready = <<>> /\ new = {}
                THEN t' = t + 1 /\ rt' = rt /\ p' = p /\ ready' = <<>>
                ELSE /\ t' = t + Min(quantum, rt[front])
                     /\ rt' = [rt EXCEPT ![front] = rt[front] - Min(quantum, rt[front])]
                     /\ gantt' = Append(gantt, Slice(front, t, t'))
                     /\ IF rt'[front] = 0
                        THEN /\ p' = [p EXCEPT ![front].ct = t']
                             /\ front \notin Range(ready')
                             /\ done' = done + 1
                        ELSE /\ p' = p
                             /\ ready'[Len(ready')] = front
                             /\ Cardinality({m \in 1..Len(ready') : ready'[m] = front}) = 1
                             /\ done' = done ]_vars
    /\ [](pc = "rr" => \A m \in Range(ready) : rt[m] > 0 /\ p[m].ct = 0)

\* C8 witness: roundRobin has finished a list in which a process went back
\* to the queue behind another one
C8_Witness ==
    /\ pc = "rr"
    /\ done = Len(p)
    /\ \E a, b, c \in 1..Len(gantt) :
          /\ a < b /\ b < c
          /\ gantt[a].idx # 0 /\ gantt[b].idx # 0
          /\ gantt[a].idx = gantt[c].idx /\ gantt[a].idx # gantt[b].idx

\* C9: the average waiting time sjf prints is no greater than the one fcfs,
\* prioritySched, or roundRobin with any quantum prints for the same list.
C9_SjfMinimizesAverageWaiting ==
    (pc = "sjf" /\ ~SjfMore(Local)) =>
        \A other \in FcfsAverages(procs) \cup PriorityAverages(procs)
                        \cup RoundRobinAverages(procs) :
            RatLeq(AvgWT(Local), other)

\* C9 witness: sjf has finished with an average waiting time strictly below
\* one of fcfs, one of prioritySched and one of roundRobin
C9_Witness ==
    /\ pc = "sjf"
    /\ ~SjfMore(Local)
    /\ \E other \in FcfsAverages(procs) : ~RatLeq(other, AvgWT(Local))
    /\ \E other \in PriorityAverages(procs) : ~RatLeq(other, AvgWT(Local))
    /\ \E other \in RoundRobinAverages(procs) : ~RatLeq(other, AvgWT(Local))

(***************************************************************************)
(* The two-pass assembler, src/gemini/first.cpp.                           *)
(* A std::string is a sequence of one-character strings, so that toHex,    *)
(* stoi, toupper, substr and the prefix tests are computed character by    *)
(* character as the code computes them.                                    *)
(***************************************************************************)
Digits == <<"0", "1", "2", "3", "4", "5", "6", "7", "8", "9">>

UpperCase ==
    <<"A", "B", "C", "D", "E", "F", "G", "H", "I", "J", "K", "L", "M",
      "N", "O", "P", "Q", "R", "S", "T", "U", "V", "W", "X", "Y", "Z">>

LowerCase ==
    <<"a", "b", "c", "d", "e", "f", "g", "h", "i", "j", "k", "l", "m",
      "n", "o", "p", "q", "r", "s", "t", "u", "v", "w", "x", "y", "z">>

IndexOf(s, c) == CHOOSE k \in 1..Len(s) : s[k] = c

\* the character code of c (ASCII)
Ascii(c) ==
    IF c \in Range(Digits) THEN 47 + IndexOf(Digits, c)
    ELSE IF c \in Range(UpperCase) THEN 64 + IndexOf(UpperCase, c)
    ELSE IF c \in Range(LowerCase) THEN 96 + IndexOf(LowerCase, c)
    ELSE CASE c = "\t" -> 9
           [] c = " " -> 32
           [] c = "#" -> 35
           [] c = "&" -> 38
           [] c = "'" -> 39
           [] c = "," -> 44
           [] c = "+" -> 43
           [] c = "-" -> 45
           [] c = "=" -> 61

\* isdigit
IsDigit(c) == c \in Range(Digits)

\* ::toupper on one character
ToUpper(c) == IF c \in Range(LowerCase) THEN UpperCase[IndexOf(LowerCase, c)] ELSE c

\* transform(s.begin(), s.end(), s.begin(), ::toupper)
ToUpperStr(s) == [k \in 1..Len(s) |-> ToUpper(s[k])]

\* s.rfind(pre, 0) == 0: s starts with pre
StartsWith(s, pre) == Len(s) >= Len(pre) /\ SubSeq(s, 1, Len(pre)) = pre

\* s.substr(from, count) with a 0-based from <= length; a count below zero
\* stands for the wrapped size_t of length() - 3 and takes the rest of s
Substr(s, from, count) ==
    IF count < 0 THEN SubSeq(s, from + 1, Len(s))
    ELSE SubSeq(s, from + 1, Min(Len(s), from + count))

\* operator< of std::string: lexicographic by character code
RECURSIVE StrLess(_, _)
StrLess(a, b) ==
    IF b = <<>> THEN FALSE
    ELSE IF a = <<>> THEN TRUE
    ELSE IF a[1] # b[1] THEN Ascii(a[1]) < Ascii(b[1])
    ELSE StrLess(Tail(a), Tail(b))

\* the keys of a std::map<string, ...> in iteration order
RECURSIVE KeysInOrder(_)
KeysInOrder(S) ==
    IF S = {} THEN <<>>
    ELSE LET m == CHOOSE k \in S : \A o \in S \ {k} : StrLess(k, o) IN
         <<m>> \o KeysInOrder(S \ {m})

\* the hexadecimal digits of n >= 0, without padding
RECURSIVE HexOf(_)
HexOf(n) ==
    LET d == IF n % 16 < 10 THEN Digits[(n % 16) + 1] ELSE UpperCase[(n % 16) - 9] IN
    IF n < 16 THEN <<d>> ELSE HexOf(n \div 16) \o <<d>>

RECURSIVE PadLeft(_, _, _)
PadLeft(s, width, c) == IF Len(s) >= width THEN s ELSE PadLeft(<<c>> \o s, width, c)

\* string toHex(int value, int padding): hex << uppercase << setw << setfill('0');
\* a negative int is written as its 32-bit two's complement, eight digits
toHex(value, padding) ==
    LET digits ==
            IF value >= 0 THEN HexOf(value)
            ELSE LET u == (value + IntMax) + 1 IN
                 HexOf((u \div 268435456) + 8) \o PadLeft(HexOf(u % 268435456), 7, "0")
    IN PadLeft(digits, padding, "0")

\* the value of the character c as a digit of the base, -1 when it is none
DigitValue(c, base) ==
    LET v == IF c \in Range(Digits) THEN IndexOf(Digits, c) - 1
             ELSE IF ToUpper(c) \in Range(SubSeq(UpperCase, 1, 6))
                  THEN 9 + IndexOf(UpperCase, ToUpper(c))
                  ELSE -1
    IN IF v < base THEN v ELSE -1

\* the longest prefix of digits of s: its value and its length
RECURSIVE ParseDigits(_, _, _, _)
ParseDigits(s, base, acc, n) ==
    IF s = <<>> \/ DigitValue(s[1], base) < 0 THEN [value |-> acc, count |-> n]
    ELSE ParseDigits(Tail(s), base, acc * base + DigitValue(s[1], base), n + 1)

RECURSIVE SkipSpaces(_)
SkipSpaces(s) == IF s # <<>> /\ s[1] = " " THEN SkipSpaces(Tail(s)) ELSE s

\* std::stoi(s, nullptr, base): leading blanks, an optional sign, with base 16
\* an optional 0x, then the longest run of digits; ok = FALSE stands for the
\* std::invalid_argument thrown when there is no digit
stoi(s, base) ==
    LET t0 == SkipSpaces(s)
        signed == t0 # <<>> /\ t0[1] \in {"+", "-"}
        t1 == IF signed THEN Tail(t0) ELSE t0
        prefixed == /\ base = 16
                    /\ Len(t1) >= 3
                    /\ t1[1] = "0"
                    /\ t1[2] \in {"x", "X"}
                    /\ DigitValue(t1[3], 16) >= 0
        t2 == IF prefixed THEN SubSeq(t1, 3, Len(t1)) ELSE t1
        r == ParseDigits(t2, base, 0, 0)
    IN [ok |-> r.count > 0,
        value |-> IF signed /\ t0[1] = "-" THEN 0 - r.value ELSE r.value]

\* the mnemonics and directives the code compares with
LDA == <<"L", "D", "A">>
STA == <<"S", "T", "A">>
ADD == <<"A", "D", "D">>
JMP == <<"J", "M", "P">>
JLT == <<"J", "L", "T">>
SUB == <<"S", "U", "B">>
START == <<"S", "T", "A", "R", "T">>
END == <<"E", "N", "D">>
WORD == <<"W", "O", "R", "D">>
RESW == <<"R", "E", "S", "W">>
RESB == <<"R", "E", "S", "B">>
BYTE == <<"B", "Y", "T", "E">>

\* map<string, pair<string, int>> OPTAB
OPTAB ==
    (LDA :> [first |-> <<"0", "0">>, second |-> 3])
        @@ (STA :> [first |-> <<"0", "C">>, second |-> 3])
        @@ (ADD :> [first |-> <<"1", "8">>, second |-> 3])
        @@ (JMP :> [first |-> <<"3", "0">>, second |-> 3])
        @@ (JLT :> [first |-> <<"3", "8">>, second |-> 3])
        @@ (SUB :> [first |-> <<"1", "C">>, second |-> 3])

MAX_TEXT_RECORD_LENGTH == 60

\* struct IntermediateLine
IntermediateLine(lc, label, opcode, operand) ==
    [location_counter |-> lc, label |-> label, opcode |-> opcode, operand |-> operand]

\* the bytes of a C'...' or X'...' constant of n characters, as pass_one
\* computes them: length() - 3 and (length() - 3) / 2 in size_t, then
\* narrowed to int (both give -1 for the two-character constants C' and X')
CharLength(n) == n - 3

HexLength(n) == IF n >= 3 THEN (n - 3) \div 2 ELSE -1

\* string hexToByteCode(const string& operand)
hexToByteCode(operand) ==
    LET upperOperand == ToUpperStr(operand)
        chars == Substr(upperOperand, 2, Len(upperOperand) - 3)
        CodeOf[k \in 0..Len(chars)] ==
            IF k = 0 THEN <<>> ELSE CodeOf[k - 1] \o toHex(Ascii(chars[k]), 2)
    IN
    IF operand = <<>> THEN <<>>
    ELSE IF StartsWith(upperOperand, <<"C", "'">>) THEN CodeOf[Len(chars)]
    ELSE IF StartsWith(upperOperand, <<"X", "'">>) THEN chars
    ELSE IF \/ IsDigit(upperOperand[1])
            \/ /\ Len(upperOperand) > 1
               /\ upperOperand[1] \in {"-", "+"}
               /\ IsDigit(upperOperand[2])
         THEN toHex(stoi(upperOperand, 10).value, 6)
    ELSE <<>>

\* main's source_code
SampleSource ==
    << << <<"C", "O", "P", "Y">>, START, <<"1", "0", "0", "0">> >>,
       << <<"L", "O", "O", "P">>, LDA, <<"T", "E", "N">> >>,
       << <<>>, ADD, <<"O", "N", "E">> >>,
       << <<>>, JLT, <<"L", "O", "O", "P">> >>,
       << <<>>, STA, <<"R", "E", "S", "U", "L", "T">> >>,
       << <<>>, LDA, <<"=", "C", "'", "E", "O", "F", "'">> >>,
       << <<"T", "E", "N">>, WORD, <<"1", "0">> >>,
       << <<"O", "N", "E">>, RESW, <<"1">> >>,
       << <<"R", "E", "S", "U", "L", "T">>, RESB, <<"3">> >>,
       << <<>>, END, <<>> >> >>

\* the source lines of the other explored programs
\* two BYTE constants, of 20 and of 31 characters
MediumConstant == <<"C", "'">> \o [k \in 1..20 |-> "B"] \o <<"'">>

LongConstant == <<"C", "'">> \o [k \in 1..31 |-> "A"] \o <<"'">>

SourceLines ==
    { << <<"A">>, START, <<"1", "0">> >>,
      << <<>>, START, <<>> >>,
      << <<"A">>, LDA, <<"B">> >>,
      << <<"B">>, STA, <<"A">> >>,
      << <<>>, LDA, <<"=", "C", "'", "E", "'">> >>,
      << <<>>, ADD, <<"=", "X", "'", "0", "A", "'">> >>,
      << <<"B">>, WORD, <<"2">> >>,
      << <<"A">>, RESW, <<"1">> >>,
      << <<"B">>, RESB, <<"2">> >>,
      << <<"A">>, BYTE, <<"c", "'", "e", "o", "'">> >>,
      << <<>>, BYTE, <<"X", "'", "0", "A", "'">> >>,
      << <<>>, BYTE, <<"5">> >>,
      << <<>>, BYTE, MediumConstant >>,
      << <<>>, BYTE, LongConstant >>,
      << <<>>, RESW, <<"A">> >>,
      << <<>>, END, <<>> >> }

AsmInputs == {SampleSource} \cup SeqsUpTo(SourceLines, MaxLines)

AsmInit ==
    /\ PageIdle
    /\ SchedIdle
    /\ MacroIdle
    /\ pc = "main"
    /\ cout = <<>>
    /\ source_code \in AsmInputs
    /\ srcPos = 1
    /\ LC = 0
    /\ start_address = 0
    /\ program_name = <<>>
    /\ SYMTAB = EmptyMap
    /\ LITTAB = EmptyMap
    /\ intermediate_file = <<>>
    /\ cerr = <<>>
    /\ start_addr = <<>>
    /\ program_len = 0
    /\ object_program = <<>>
    /\ text_record_start_addr = <<>>
    /\ current_text_record_code = <<>>
    /\ intPos = 1

\* ---- pass_one ----
\* what pass_one reads and writes, as one record; thrown: an exception left
\* the function
PassOneLocal ==
    [srcPos |-> srcPos, LC |-> LC, start_address |-> start_address,
     program_name |-> program_name, SYMTAB |-> SYMTAB, LITTAB |-> LITTAB,
     intermediate_file |-> intermediate_file, cout |-> cout, cerr |-> cerr,
     thrown |-> FALSE]

SetPassOneLocal(st) ==
    /\ srcPos' = st.srcPos
    /\ LC' = st.LC
    /\ start_address' = st.start_address
    /\ program_name' = st.program_name
    /\ SYMTAB' = st.SYMTAB
    /\ LITTAB' = st.LITTAB
    /\ intermediate_file' = st.intermediate_file
    /\ cout' = st.cout
    /\ cerr' = st.cerr

\* 1. Handle START Directive
StartLine(st, label, opcode, operand) ==
    LET n == IF operand = <<>> THEN [ok |-> TRUE, value |-> 0] ELSE stoi(operand, 16) IN
    IF ~n.ok
    THEN [st EXCEPT !.program_name = label, !.thrown = TRUE]
    ELSE [st EXCEPT !.program_name = label,
                    !.start_address = n.value,
                    !.LC = n.value,
                    !.intermediate_file =
                        Append(@, IntermediateLine(toHex(n.value, 4), label, opcode, operand)),
                    !.cout = Append(@, [kind |-> "start", lc |-> toHex(n.value, 4)]),
                    !.srcPos = @ + 1]

\* 2. Process Label (If exists)
DefineLabel(st, label) ==
    IF label = <<>> THEN st
    ELSE [st EXCEPT !.cerr = IF label \in DOMAIN st.SYMTAB
                             THEN Append(@, [kind |-> "duplicate", label |-> label,
                                             lc |-> toHex(st.LC, 4)])
                             ELSE @,
                    !.SYMTAB = MapPut(@, label, toHex(st.LC, 4))]

\* 4. Update LC based on Opcode/Directive: the amount added to LC; ok = FALSE
\* when stoi throws
OperandNumber(operand, factor) ==
    LET n == stoi(operand, 10) IN [ok |-> n.ok, value |-> factor * n.value]

AdvanceSkipsReservations(opcode, operand) ==
    IF opcode \in DOMAIN OPTAB THEN [ok |-> TRUE, value |-> OPTAB[opcode].second]
    ELSE IF opcode = WORD THEN [ok |-> TRUE, value |-> 3]
    ELSE [ok |-> TRUE, value |-> 0]

Advance(opcode, operand) ==
    LET upperOperand == ToUpperStr(operand) IN
    IF opcode \in DOMAIN OPTAB THEN [ok |-> TRUE, value |-> OPTAB[opcode].second]
    ELSE IF opcode = WORD THEN [ok |-> TRUE, value |-> 3]
    ELSE IF opcode = RESW THEN OperandNumber(operand, 3)
    ELSE IF opcode = RESB THEN OperandNumber(operand, 1)
    ELSE IF opcode = BYTE
         THEN IF StartsWith(upperOperand, <<"C", "'">>)
              THEN [ok |-> TRUE, value |-> CharLength(Len(upperOperand))]
              ELSE IF StartsWith(upperOperand, <<"X", "'">>)
                   THEN [ok |-> TRUE, value |-> HexLength(Len(upperOperand))]
                   ELSE [ok |-> TRUE, value |-> 0]
    ELSE [ok |-> TRUE, value |-> 0]

\* 5. Handle Literals: the length recorded for a new literal
LiteralLength(operand) ==
    LET upperLiteral == ToUpperStr(Substr(operand, 1, -1)) IN
    IF StartsWith(upperLiteral, <<"C", "'">>) THEN CharLength(Len(upperLiteral))
    ELSE IF StartsWith(upperLiteral, <<"X", "'">>) THEN HexLength(Len(upperLiteral))
    ELSE 3

RegisterLiteral(st, operand) ==
    IF StartsWith(operand, <<"=">>) /\ operand \notin DOMAIN st.LITTAB
    THEN [st EXCEPT !.LITTAB =
              MapPut(@, operand, [first |-> <<>>, second |-> LiteralLength(operand)])]
    ELSE st

RECURSIVE AssignLiteralsSameAddress(_, _)
AssignLiteralsSameAddress(st, keys) ==
    IF keys = <<>> THEN st
    ELSE AssignLiteralsSameAddress(
             [st EXCEPT !.LITTAB[keys[1]].first = toHex(st.LC, 4)],
             Tail(keys))

\* 6. Handle END: every literal still without an address gets the current LC,
\* in the iteration order of the map
RECURSIVE AssignLiterals(_, _)
AssignLiterals(st, keys) ==
    IF keys = <<>> THEN st
    ELSE LET entry == st.LITTAB[keys[1]] IN
         AssignLiterals(
             IF entry.first = <<>>
             THEN [st EXCEPT !.LITTAB[keys[1]].first = toHex(st.LC, 4),
                             !.LC = @ + entry.second]
             ELSE st,
             Tail(keys))

\* one iteration of the loop over source_code
PassOneIter(st, src) ==
    LET line == src[st.srcPos]
        label == line[1]
        opcode == line[2]
        operand == line[3]
        labelled == DefineLabel(st, label)
        written ==
            IF opcode # END
            THEN [labelled EXCEPT !.intermediate_file =
                      Append(@, IntermediateLine(toHex(st.LC, 4), label, opcode, operand))]
            ELSE labelled
        step == Advance(opcode, operand)
        advanced == [written EXCEPT !.LC = @ + step.value]
        registered == RegisterLiteral(advanced, operand)
        ended ==
            AssignLiterals(
                [registered EXCEPT !.intermediate_file =
                     Append(@, IntermediateLine(toHex(registered.LC, 4), label, opcode, operand))],
                KeysInOrder(DOMAIN registered.LITTAB))
    IN
    IF opcode = START THEN StartLine(st, label, opcode, operand)
    ELSE IF ~step.ok THEN [written EXCEPT !.thrown = TRUE]
    ELSE IF opcode = END THEN [ended EXCEPT !.srcPos = Len(src) + 1]
    ELSE [registered EXCEPT !.srcPos = @ + 1]

PassOneMore(st, src) == ~st.thrown /\ st.srcPos <= Len(src)

\* main calls pass_one(source_code, intermediate_file)
PassOneCall ==
    /\ pc = "main"
    /\ pc' = "pass_one"
    /\ cout' = Append(cout, HeaderLine("pass_one"))
    /\ UNCHANGED <<asmVars, pageVars, schedVars, macroVars>>

PassOneStep ==
    /\ pc = "pass_one"
    /\ PassOneMore(PassOneLocal, source_code)
    /\ LET st == PassOneIter(PassOneLocal, source_code) IN
        /\ SetPassOneLocal(st)
        /\ pc' = IF st.thrown THEN "terminated" ELSE pc
    /\ UNCHANGED <<source_code, start_addr, program_len, object_program,
                   text_record_start_addr, current_text_record_code, intPos,
                   pageVars, schedVars, macroVars>>

\* the end of pass_one and the tie(...) of main
PassOneReturn ==
    /\ pc = "pass_one"
    /\ ~PassOneMore(PassOneLocal, source_code)
    /\ pc' = "main_tables"
    /\ LET program_length == LC - start_address IN
        /\ cout' = Append(cout, [kind |-> "pass_one_complete",
                                 length |-> toHex(program_length, 4)])
        /\ program_len' = program_length
    /\ start_addr' = toHex(start_address, 4)
    /\ UNCHANGED <<source_code, srcPos, LC, start_address, program_name, SYMTAB, LITTAB,
                   intermediate_file, cerr, object_program, text_record_start_addr,
                   current_text_record_code, intPos, pageVars, schedVars, macroVars>>

\* main: Output Pass I results for verification
TableLines ==
    LET syms == KeysInOrder(DOMAIN SYMTAB)
        lits == KeysInOrder(DOMAIN LITTAB)
    IN [k \in 1..Len(syms) |->
            [kind |-> "symtab", symbol |-> syms[k], address |-> SYMTAB[syms[k]]]]
        \o [k \in 1..Len(lits) |->
            [kind |-> "littab", literal |-> lits[k], address |-> LITTAB[lits[k]].first,
             length |-> LITTAB[lits[k]].second]]
        \o [k \in 1..Len(intermediate_file) |->
            [kind |-> "intermediate", line |-> intermediate_file[k]]]

MainTables ==
    /\ pc = "main_tables"
    /\ pc' = "main_pass_two"
    /\ cout' = cout \o TableLines
    /\ UNCHANGED <<asmVars, pageVars, schedVars, macroVars>>

\* ---- pass_two ----
\* padded_name: at most six characters, filled with blanks to six
PaddedName(name) ==
    LET cut == IF Len(name) > 6 THEN Substr(name, 0, 6) ELSE name IN
    [k \in 1..6 |-> IF k <= Len(cut) THEN cut[k] ELSE " "]

\* 1. Write Header Record
HeaderRecord(name, start, len) == <<"H">> \o PaddedName(name) \o start \o toHex(len, 6)

\* "T" + text_record_start_addr + len_hex + current_text_record_code
TextRecord(start, code) == <<"T">> \o start \o toHex(Len(code) \div 2, 2) \o code

PassTwoLocal ==
    [object_program |-> object_program,
     text_record_start_addr |-> text_record_start_addr,
     current_text_record_code |-> current_text_record_code,
     cerr |-> cerr]

InstructionCodeSymbolsOnly(line) ==
    OPTAB[line.opcode].first
        \o (IF line.operand \in DOMAIN SYMTAB THEN SYMTAB[line.operand]
            ELSE <<"0", "0", "0", "0">>)

\* a machine instruction: opcode + address of the operand
InstructionCode(line) ==
    LET address ==
            IF line.operand \in DOMAIN SYMTAB THEN SYMTAB[line.operand]
            ELSE IF StartsWith(line.operand, <<"=">>) /\ line.operand \in DOMAIN LITTAB
                 THEN LITTAB[line.operand].first
                 ELSE <<"0", "0", "0", "0">>
    IN OPTAB[line.opcode].first \o address

Unresolved(line) ==
    /\ line.operand \notin DOMAIN SYMTAB
    /\ ~(StartsWith(line.operand, <<"=">>) /\ line.operand \in DOMAIN LITTAB)
    /\ line.operand # <<>>

CloseRecordKeepsOpen(st) == st

\* RESW / RESB: end the current T record
CloseRecord(st) ==
    [st EXCEPT !.object_program =
                   IF st.current_text_record_code # <<>>
                   THEN Append(@, TextRecord(st.text_record_start_addr,
                                             st.current_text_record_code))
                   ELSE @,
               !.current_text_record_code = <<>>,
               !.text_record_start_addr = <<>>]

\* 3. Build Text Record
AddCode(st, line, object_code) ==
    LET start == IF st.current_text_record_code = <<>>
                 THEN line.location_counter
                 ELSE st.text_record_start_addr
    IN
    IF object_code = <<>> THEN st
    ELSE IF Len(st.current_text_record_code) + Len(object_code) > MAX_TEXT_RECORD_LENGTH
         THEN [st EXCEPT !.object_program =
                             Append(@, TextRecord(start, st.current_text_record_code)),
                         !.text_record_start_addr = line.location_counter,
                         !.current_text_record_code = object_code]
         ELSE [st EXCEPT !.text_record_start_addr = start,
                         !.current_text_record_code = @ \o object_code]

\* one iteration of the loop over intermediate_file
PassTwoIter(st, line) ==
    IF line.opcode \in DOMAIN OPTAB
    THEN AddCode([st EXCEPT !.cerr = IF Unresolved(line)
                                     THEN Append(@, [kind |-> "warning",
                                                     operand |-> line.operand])
                                     ELSE @],
                 line, InstructionCode(line))
    ELSE IF line.opcode \in {WORD, BYTE} THEN AddCode(st, line, hexToByteCode(line.operand))
    ELSE IF line.opcode \in {RESW, RESB} THEN CloseRecord(st)
    ELSE st

\* std::map::operator[] : the map after the access; a key that is missing is
\* inserted with a value-initialised element
Subscript(map, key, default) ==
    IF key \in DOMAIN map THEN map ELSE map @@ (key :> default)

SymtabAfterUnguarded(line) ==
    IF line.opcode \in DOMAIN OPTAB THEN Subscript(SYMTAB, line.operand, <<>>) ELSE SYMTAB

\* SYMTAB after one iteration of pass_two: SYMTAB[line.operand] is evaluated
\* only under if (SYMTAB.count(line.operand))
SymtabAfter(line) ==
    IF line.opcode \in DOMAIN OPTAB /\ line.operand \in DOMAIN SYMTAB
    THEN Subscript(SYMTAB, line.operand, <<>>)
    ELSE SYMTAB

\* LITTAB after one iteration of pass_two: LITTAB[line.operand] is evaluated
\* only under LITTAB.count(line.operand)
LittabAfter(line) ==
    IF /\ line.opcode \in DOMAIN OPTAB
       /\ line.operand \notin DOMAIN SYMTAB
       /\ StartsWith(line.operand, <<"=">>)
       /\ line.operand \in DOMAIN LITTAB
    THEN Subscript(LITTAB, line.operand, [first |-> <<>>, second |-> 0])
    ELSE LITTAB

\* main calls pass_two(intermediate_file, program_name, start_addr, program_len)
PassTwoCall ==
    /\ pc = "main_pass_two"
    /\ pc' = "pass_two"
    /\ cout' = Append(cout, HeaderLine("pass_two"))
    /\ object_program' = <<HeaderRecord(program_name, start_addr, program_len)>>
    /\ text_record_start_addr' = <<>>
    /\ current_text_record_code' = <<>>
    /\ intPos' = 1
    /\ UNCHANGED <<source_code, srcPos, LC, start_address, program_name, SYMTAB, LITTAB,
                   intermediate_file, cerr, start_addr, program_len, pageVars, schedVars, macroVars>>

PassTwoStep ==
    /\ pc = "pass_two"
    /\ intPos <= Len(intermediate_file)
    /\ LET st == PassTwoIter(PassTwoLocal, intermediate_file[intPos]) IN
        /\ object_program' = st.object_program
        /\ text_record_start_addr' = st.text_record_start_addr
        /\ current_text_record_code' = st.current_text_record_code
        /\ cerr' = st.cerr
    /\ SYMTAB' = SymtabAfter(intermediate_file[intPos])
    /\ LITTAB' = LittabAfter(intermediate_file[intPos])
    /\ intPos' = intPos + 1
    /\ UNCHANGED <<pc, cout, source_code, srcPos, LC, start_address, program_name,
                   intermediate_file, start_addr, program_len, pageVars, schedVars, macroVars>>

\* 4. Write Final Text Record, 5. Write End Record, and the output
PassTwoReturn ==
    /\ pc = "pass_two"
    /\ intPos > Len(intermediate_file)
    /\ pc' = "done"
    /\ LET records == CloseRecord(PassTwoLocal).object_program
                          \o << <<"E">> \o start_addr >>
       IN /\ object_program' = records
          /\ cout' = cout \o <<HeaderLine("object_program")>>
                          \o [k \in 1..Len(records) |-> [kind |-> "record", text |-> records[k]]]
    /\ UNCHANGED <<source_code, srcPos, LC, start_address, program_name, SYMTAB, LITTAB,
                   intermediate_file, cerr, start_addr, program_len,
                   text_record_start_addr, current_text_record_code, intPos,
                   pageVars, schedVars, macroVars>>

AsmNext ==
    \/ PassOneCall \/ PassOneStep \/ PassOneReturn
    \/ MainTables
    \/ PassTwoCall \/ PassTwoStep \/ PassTwoReturn

SpecAsm == AsmInit /\ [][AsmNext]_vars

(***************************************************************************)
(* The assembler: the claims.                                              *)
(***************************************************************************)
\* a sequence of characters as one string
RECURSIVE Str(_)
Str(s) == IF s = <<>> THEN "" ELSE s[1] \o Str(Tail(s))

\* SYMTAB and LITTAB as sets of rows
SymbolRows == {<<Str(k), Str(SYMTAB[k])>> : k \in DOMAIN SYMTAB}

LiteralRows == {<<Str(k), Str(LITTAB[k].first), LITTAB[k].second>> : k \in DOMAIN LITTAB}

\* pass_one has returned to main
PassOneReturned == pc \in {"main_tables", "main_pass_two", "pass_two", "done"}

\* pass_two has written the header record
HeaderWritten == pc \in {"pass_two", "done"}

\* the last n characters of s
Suffix(s, n) == SubSeq(s, Len(s) - n + 1, Len(s))

\* C10: for the sample program of main, Pass I leaves the symbol table
\* LOOP 1000, TEN 100F, ONE 1012, RESULT 1015 and nothing else (COPY, the
\* program name, is not a symbol), the literal table with =C'EOF' at address
\* 1018 and length 3, and the program length 001B (27 bytes), which Pass I
\* prints and which the header record of Pass II, HCOPY  100000001B, carries
\* as its length field (the same value padded to six digits).
C10_SampleAssembly ==
    source_code = SampleSource =>
        /\ pc # "terminated"
        /\ PassOneReturned =>
              /\ SymbolRows = {<<"LOOP", "1000">>, <<"TEN", "100F">>,
                               <<"ONE", "1012">>, <<"RESULT", "1015">>}
              /\ LiteralRows = {<<"=C'EOF'", "1018", 3>>}
              /\ program_len = 27
              /\ toHex(program_len, 4) = <<"0", "0", "1", "B">>
              /\ \E k \in 1..Len(cout) :
                    /\ cout[k].kind = "pass_one_complete"
                    /\ Str(cout[k].length) = "001B"
        /\ HeaderWritten =>
              /\ Str(object_program[1]) = "HCOPY  100000001B"
              /\ Suffix(object_program[1], 6) = toHex(program_len, 6)
              /\ Str(Suffix(object_program[1], 4)) = "001B"
              /\ stoi(Suffix(object_program[1], 6), 16).value = stoi(<<"0", "0", "1", "B">>, 16).value
        /\ pc = "done" =>
              \E k \in 1..Len(cout) :
                  /\ cout[k].kind = "record"
                  /\ Str(cout[k].text) = "HCOPY  100000001B"

C10_Witness ==
    /\ source_code = SampleSource
    /\ pc = "done"
    /\ Cardinality(DOMAIN SYMTAB) = 4
    /\ DOMAIN LITTAB # {}
    /\ Len(object_program) >= 3

\* the source line pass_one is about to process, outside START handling
AtSourceLine == pc = "pass_one" /\ PassOneMore(PassOneLocal, source_code)

CurrentLine == source_code[srcPos]

\* the line at hand defines a label that SYMTAB already holds
DuplicateDefinition ==
    /\ AtSourceLine
    /\ CurrentLine[2] # START
    /\ CurrentLine[1] # <<>>
    /\ CurrentLine[1] \in DOMAIN SYMTAB

\* C11: when a label is defined again on a later line, Pass I writes one
\* duplicate-label diagnostic, keeps the address recorded at the first
\* definition, and goes on with the pass.
C11_DuplicateLabelKeepsFirstAddress ==
    [][ DuplicateDefinition =>
          /\ Len(cerr') = Len(cerr) + 1
          /\ cerr'[Len(cerr')].kind = "duplicate"
          /\ cerr'[Len(cerr')].label = CurrentLine[1]
          /\ SYMTAB'[CurrentLine[1]] = SYMTAB[CurrentLine[1]]
          /\ pc' = "pass_one" ]_vars

\* the bytes a source line occupies, as the specification of Pass I states
\* them; the decoded data of a BYTE operand is what hexToByteCode yields
LineSize(line) ==
    LET opcode == line[2]
        operand == line[3]
    IN
    IF opcode \in DOMAIN OPTAB \/ opcode = WORD THEN 3
    ELSE IF opcode = RESW THEN 3 * stoi(operand, 10).value
    ELSE IF opcode = RESB THEN stoi(operand, 10).value
    ELSE IF opcode = BYTE THEN Len(hexToByteCode(operand)) \div 2
    ELSE 0

\* the sizes of the first n lines of src, added up
RECURSIVE SizeBefore(_, _)
SizeBefore(src, n) == IF n = 0 THEN 0 ELSE SizeBefore(src, n - 1) + LineSize(src[n])

\* every intermediate line carries start address + sizes of the lines before
\* it, and the reported length is the final counter minus the start address
CountersAddUp ==
    /\ \A k \in 1..Len(intermediate_file) :
          /\ intermediate_file[k].opcode = source_code[k][2]
          /\ intermediate_file[k].location_counter
                = toHex(start_address + SizeBefore(source_code, k - 1), 4)
    /\ program_len = LC - start_address
    /\ \E k \in 1..Len(cout) :
          /\ cout[k].kind = "pass_one_complete"
          /\ cout[k].length = toHex(LC - start_address, 4)

\* C12: for every source program, when Pass I has returned, the location
\* counter of each intermediate line is the START address (0 when absent)
\* plus the sizes of all preceding lines (3 for an instruction and for WORD,
\* 3 times the operand for RESW, the operand for RESB, the decoded data
\* length for BYTE), and the program length is the final counter minus the
\* start address.
C12_LocationCounters == PassOneReturned => CountersAddUp

\* the intermediate line pass_two is about to process
AtIntermediateLine == pc = "pass_two" /\ intPos <= Len(intermediate_file)

\* the address the specification of Pass II gives to an operand
ResolvedAddress(operand) ==
    IF operand \in DOMAIN SYMTAB THEN SYMTAB[operand]
    ELSE IF operand \in DOMAIN LITTAB THEN LITTAB[operand].first
    ELSE <<"0", "0", "0", "0">>

\* no table knows the operand, and there is one
UnknownOperand(operand) ==
    operand \notin DOMAIN SYMTAB /\ operand \notin DOMAIN LITTAB /\ operand # <<>>

\* C13: every machine-instruction line of Pass II adds to the text record
\* its OPTAB opcode followed by the SYMTAB address of the operand if it is a
\* symbol (wherever it was defined), else the LITTAB address if it is a
\* registered literal, else 0000; a warning is written exactly when the
\* operand is in neither table and is not empty.
C13_InstructionAddress ==
    [][ (AtIntermediateLine /\ intermediate_file[intPos].opcode \in DOMAIN OPTAB) =>
          LET line == intermediate_file[intPos]
              code == OPTAB[line.opcode].first \o ResolvedAddress(line.operand)
          IN /\ current_text_record_code' \in {current_text_record_code \o code, code}
             /\ IF UnknownOperand(line.operand)
                THEN cerr' = Append(cerr, [kind |-> "warning", operand |-> line.operand])
                ELSE cerr' = cerr
             /\ pc' = "pass_two" ]_vars

\* an instruction whose operand is a label of a later line has just been
\* assembled with that label's address
C13_Witness ==
    /\ pc = "pass_two"
    /\ intPos > 1
    /\ LET line == intermediate_file[intPos - 1] IN
        /\ line.opcode \in DOMAIN OPTAB
        /\ \E j \in intPos..Len(intermediate_file) :
              intermediate_file[j].label = line.operand
        /\ \A j \in 1..(intPos - 1) : intermediate_file[j].label # line.operand
        /\ line.operand \in DOMAIN SYMTAB
        /\ SYMTAB[line.operand] # <<"0", "0", "0", "0">>
        /\ Suffix(current_text_record_code, 6)
              = OPTAB[line.opcode].first \o SYMTAB[line.operand]

\* the text records written so far and the object code each one carries
TextRecords == {k \in 1..Len(object_program) : object_program[k][1] = "T"}

RecordStart(rec) == SubSeq(rec, 2, 5)

RecordCode(rec) == SubSeq(rec, 8, Len(rec))

\* adding the code of the line at hand would exceed the budget
Overflows(line) ==
    /\ line.opcode \in DOMAIN OPTAB \cup {WORD, BYTE}
    /\ current_text_record_code # <<>>
    /\ Len(current_text_record_code)
          + Len(IF line.opcode \in DOMAIN OPTAB
                THEN InstructionCode(line)
                ELSE hexToByteCode(line.operand)) > MAX_TEXT_RECORD_LENGTH

\* C14: every text record of Pass II carries at least 1 and at most 30 bytes
\* (2 to 60 hexadecimal characters) of object code; when the bytes of a line
\* would exceed the budget the current record is closed and a new one is
\* opened at that line's location counter.
C14_TextRecordBudget ==
    /\ [](\A k \in TextRecords :
            /\ Len(RecordCode(object_program[k])) >= 2
            /\ Len(RecordCode(object_program[k])) <= MAX_TEXT_RECORD_LENGTH)
    /\ [][ (AtIntermediateLine /\ Overflows(intermediate_file[intPos])) =>
              /\ object_program'
                    = Append(object_program,
                             TextRecord(text_record_start_addr, current_text_record_code))
              /\ text_record_start_addr' = intermediate_file[intPos].location_counter
              /\ current_text_record_code' # <<>> ]_vars

\* the data bytes of a literal: the constant after the "="
LiteralData(literal) == hexToByteCode(Substr(literal, 1, -1))

\* some text record starts at the literal's address and carries its bytes
LiteralEmitted(literal) ==
    \E k \in TextRecords :
        /\ RecordStart(object_program[k]) = LITTAB[literal].first
        /\ RecordCode(object_program[k]) = LiteralData(literal)

\* C15: when Pass II has finished, every literal of LITTAB that was given an
\* address has its data bytes in a text record starting at that address; for
\* the sample program this is the record T 1018, length 3, bytes 454F46.
C15_LiteralsEmitted ==
    pc = "done" =>
        /\ \A literal \in DOMAIN LITTAB :
              LITTAB[literal].first # <<>> => LiteralEmitted(literal)
        /\ source_code = SampleSource =>
              \E k \in TextRecords :
                  /\ Str(RecordStart(object_program[k])) = "1018"
                  /\ Str(SubSeq(object_program[k], 6, 7)) = "03"
                  /\ Str(RecordCode(object_program[k])) = "454F46"

(***************************************************************************)
(* The two-pass macroprocessor,                                            *)
(* src/gemini/fourth(page replacement).cpp lines 159-465.                  *)
(* Lines are sequences of characters; "\t" is the tab.                     *)
(***************************************************************************)
\* the white space operator>> skips
IsSpace(c) == c \in {" ", "\t"}

RECURSIVE SkipWhite(_)
SkipWhite(s) == IF s # <<>> /\ IsSpace(s[1]) THEN SkipWhite(Tail(s)) ELSE s

\* the length of the longest prefix of s without the characters of stops
RECURSIVE PrefixUntil(_, _)
PrefixUntil(s, stops) ==
    IF s = <<>> \/ s[1] \in stops THEN 0 ELSE 1 + PrefixUntil(Tail(s), stops)

\* vector<string> tokenize(const string& line): while (ss >> token)
RECURSIVE tokenize(_)
tokenize(line) ==
    LET s == SkipWhite(line)
        n == PrefixUntil(s, {" ", "\t"})
    IN IF s = <<>> THEN <<>>
       ELSE <<SubSeq(s, 1, n)>> \o tokenize(SubSeq(s, n + 1, Len(s)))

\* ParsedLine parse_line(const vector<string>& tokens)
parse_line(tokens) ==
    IF Len(tokens) = 0 THEN [label |-> <<>>, opcode |-> <<>>, operand |-> <<>>]
    ELSE IF Len(tokens) = 1 THEN [label |-> <<>>, opcode |-> tokens[1], operand |-> <<>>]
    ELSE IF Len(tokens) = 2 THEN [label |-> <<>>, opcode |-> tokens[1], operand |-> tokens[2]]
    ELSE [label |-> tokens[1], opcode |-> tokens[2], operand |-> tokens[3]]

\* vector<string> extract_parameters(const string& operand_str):
\* getline(ss, param, ',') and the empty pieces dropped
RECURSIVE extract_parameters(_)
extract_parameters(operand_str) ==
    LET n == PrefixUntil(operand_str, {","})
        rest == extract_parameters(SubSeq(operand_str, n + 2, Len(operand_str)))
    IN IF operand_str = <<>> THEN <<>>
       ELSE IF n = 0 THEN rest
       ELSE <<SubSeq(operand_str, 1, n)>> \o rest

\* s.find(sub): the first position (1-based) where sub occurs, 0 for npos
Find(s, sub) ==
    LET hits == {k \in 1..(Len(s) - Len(sub) + 1) : SubSeq(s, k, k + Len(sub) - 1) = sub}
    IN IF hits = {} THEN 0 ELSE CHOOSE k \in hits : \A m \in hits : k <= m

\* pos = s.find(sub); if (pos != npos) s.replace(pos, sub.length(), by)
ReplaceFirst(s, sub, by) ==
    LET at == Find(s, sub) IN
    IF at = 0 THEN s
    ELSE SubSeq(s, 1, at - 1) \o by \o SubSeq(s, at + Len(sub), Len(s))

\* for (const auto& pair : m) ReplaceFirst(line, pair.first, pair.second),
\* in the iteration order of the map
RECURSIVE ApplyInOrder(_, _, _)
ApplyInOrder(line, m, keys) ==
    IF keys = <<>> THEN line
    ELSE ApplyInOrder(ReplaceFirst(line, keys[1], m[keys[1]]), m, Tail(keys))

\* std::to_string of an int >= 0
RECURSIVE to_string(_)
to_string(n) ==
    IF n < 10 THEN <<Digits[n + 1]>> ELSE to_string(n \div 10) \o <<Digits[(n % 10) + 1]>>

\* "#" + to_string(i)
Placeholder(n) == <<"#">> \o to_string(n)

MACRO == <<"M", "A", "C", "R", "O">>
MEND == <<"M", "E", "N", "D">>

\* main's source_code
SampleMacroSource ==
    << <<"M", "A", "I", "N", "\t", "S", "T", "A", "R", "T", "\t", "1", "0", "0",
      "0">>,
       <<"L", "O", "O", "P", "\t", "L", "O", "A", "D", "\t", "X">>,
       <<"C", "A", "L", "C", "\t", "M", "A", "C", "R", "O", "\t", "&", "A", ",",
      "&", "B">>,
       <<"&", "A", "\t", "A", "D", "D", "\t", "&", "B">>,
       <<"\t", "S", "U", "B", "\t", "&", "B">>,
       <<"M", "E", "N", "D">>,
       <<"\t", "S", "T", "O", "R", "E", "\t", "Y">>,
       <<"I", "N", "I", "T", "\t", "M", "A", "C", "R", "O", "\t", "&", "X", ",",
      "&", "Y", ",", "&", "Z">>,
       <<"&", "X", "\t", "L", "O", "A", "D", "\t", "&", "Y">>,
       <<"\t", "S", "T", "O", "R", "E", "\t", "&", "Z">>,
       <<"M", "E", "N", "D">>,
       <<"\t", "I", "N", "I", "T", "\t", "T", "E", "M", "P", ",", "O", "N", "E",
      ",", "T", "W", "O">>,
       <<"\t", "C", "A", "L", "C", "\t", "X", ",", "Y">>,
       <<"\t", "C", "A", "L", "C", "\t", "Y", ",", "Z">>,
       <<"X", "\t", "R", "E", "S", "W", "\t", "1">>,
       <<"Y", "\t", "R", "E", "S", "W", "\t", "1">>,
       <<"Z", "\t", "R", "E", "S", "W", "\t", "1">>,
       <<"T", "E", "M", "P", "\t", "R", "E", "S", "W", "\t", "1">>,
       <<"O", "N", "E", "\t", "W", "O", "R", "D", "\t", "1">>,
       <<"T", "W", "O", "\t", "W", "O", "R", "D", "\t", "2">>,
       <<"\t", "E", "N", "D", "\t">> >>

\* the source lines of the other explored programs: a macro header, two body
\* lines (one using a parameter twice), MEND, a call, a call with a wrong
\* number of arguments, a plain line and an empty line
MacroLines ==
    { <<"M", "\t", "M", "A", "C", "R", "O", "\t", "&", "A", ",", "&", "B">>,
      <<"&", "A", "\t", "A", "D", "D", "\t", "&", "B">>,
      <<"\t", "M", "U", "L", "\t", "&", "A", ",", "&", "A">>,
      <<"M", "E", "N", "D">>,
      <<"M", "E", "N", "D", "\t", "X">>,
      <<"\t", "M", "\t", "X", ",", "Y">>,
      <<"\t", "M", "\t", "X">>,
      <<"\t", "L", "O", "A", "D", "\t", "X">>,
      <<>> }

MacroInputs == {SampleMacroSource} \cup SeqsUpTo(MacroLines, MaxMacroLines)

\* the two error lines pass_two writes to output.txt
ArgumentError(name) ==
    <<"*", "*", "E", "R", "R", "O", "R", ":", " ", "I", "n", "c", "o", "r",
        "r", "e", "c", "t", " ", "n", "u", "m", "b", "e", "r", " ", "o",
        "f", " ", "a", "r", "g", "u", "m", "e", "n", "t", "s", " ", "f",
        "o", "r", " ", "m", "a", "c", "r", "o", " ">>
        \o name \o <<".">>

IndexError(name) ==
    <<"*", "*", "E", "R", "R", "O", "R", ":", " ", "M", "D", "T", " ", "i",
        "n", "d", "e", "x", "i", "n", "g", " ", "e", "r", "r", "o", "r",
        " ", "d", "u", "r", "i", "n", "g", " ", "e", "x", "p", "a", "n",
        "s", "i", "o", "n", " ", "o", "f", " ">>
        \o name \o <<".">>

\* struct MNTEntry
MNTEntry(start, n) == [start_index |-> start, num_parameters |-> n]

MacroInit ==
    /\ PageIdle
    /\ SchedIdle
    /\ AsmIdle
    /\ pc = "macro_main"
    /\ cout = <<>>
    /\ macro_source \in MacroInputs
    /\ macroPos = 1
    /\ in_macro = FALSE
    /\ macro_name = <<>>
    /\ formal_params = <<>>
    /\ formal_to_placeholder = EmptyMap
    /\ MNT = EmptyMap
    /\ MDT = <<>>
    /\ MDT_IDX = 0
    /\ intermediate_txt = <<>>
    /\ output_txt = <<>>
    /\ readPos = 1
    /\ call_name = <<>>
    /\ actual_map = EmptyMap
    /\ current_mdt_idx = 0
    /\ expansion_from = 0

\* ---- pass_one ----
\* Build Formal Parameter Map: formal_to_placeholder[formal_params[i]] = "#" + i,
\* a later equal name overwriting an earlier one
FormalMap(params) ==
    [name \in Range(params) |->
        Placeholder((CHOOSE k \in 1..Len(params) :
                        /\ params[k] = name
                        /\ \A m \in 1..Len(params) : params[m] = name => m <= k) - 1)]

\* Replace all formal parameters with their placeholders (#i)
ReplaceEach(line, m) == ApplyInOrder(line, m, KeysInOrder(DOMAIN m))

MacroPassOneCall ==
    /\ pc = "macro_main"
    /\ pc' = "macro_pass_one"
    /\ cout' = Append(cout, HeaderLine("macro_pass_one"))
    /\ intermediate_txt' = <<>>
    /\ UNCHANGED <<macro_source, macroPos, in_macro, macro_name, formal_params,
                   formal_to_placeholder, MNT, MDT, MDT_IDX, output_txt, readPos,
                   call_name, actual_map, current_mdt_idx, expansion_from,
                   pageVars, schedVars, asmVars>>

\* one iteration of the loop over source_code
MacroPassOneStep ==
    /\ pc = "macro_pass_one"
    /\ macroPos <= Len(macro_source)
    /\ macroPos' = macroPos + 1
    /\ LET line == macro_source[macroPos]
           tokens == tokenize(line)
           parsed == parse_line(tokens)
           params == extract_parameters(parsed.operand)
       IN
       IF tokens = <<>>
       THEN UNCHANGED <<in_macro, macro_name, formal_params, formal_to_placeholder,
                        MNT, MDT, MDT_IDX, intermediate_txt>>
       ELSE IF parsed.opcode = MACRO
       THEN /\ in_macro' = TRUE
            /\ macro_name' = parsed.label
            /\ formal_params' = params
            /\ formal_to_placeholder' = FormalMap(params)
            /\ MNT' = MapPut(MNT, parsed.label, MNTEntry(MDT_IDX, Len(params)))
            /\ MDT' = Append(MDT, line)
            /\ MDT_IDX' = MDT_IDX + 1
            /\ UNCHANGED intermediate_txt
       ELSE IF parsed.opcode = MEND
       THEN /\ in_macro' = FALSE
            /\ MDT' = Append(MDT, line)
            /\ MDT_IDX' = MDT_IDX + 1
            /\ UNCHANGED <<macro_name, formal_params, formal_to_placeholder, MNT,
                           intermediate_txt>>
       ELSE IF in_macro
       THEN /\ MDT' = Append(MDT, ReplaceEach(line, formal_to_placeholder))
            /\ MDT_IDX' = MDT_IDX + 1
            /\ UNCHANGED <<in_macro, macro_name, formal_params, formal_to_placeholder,
                           MNT, intermediate_txt>>
       ELSE /\ intermediate_txt' = Append(intermediate_txt, line)
            /\ UNCHANGED <<in_macro, macro_name, formal_params, formal_to_placeholder,
                           MNT, MDT, MDT_IDX>>
    /\ UNCHANGED <<pc, cout, macro_source, output_txt, readPos, call_name, actual_map,
                   current_mdt_idx, expansion_from, pageVars, schedVars, asmVars>>

MacroPassOneReturn ==
    /\ pc = "macro_pass_one"
    /\ macroPos > Len(macro_source)
    /\ pc' = "macro_tables"
    /\ cout' = Append(cout, [kind |-> "pass_one_complete"])
    /\ UNCHANGED <<macroVars, pageVars, schedVars, asmVars>>

\* void print_tables()
MacroTableLines ==
    LET names == KeysInOrder(DOMAIN MNT) IN
    [k \in 1..Len(names) |->
        [kind |-> "mnt", name |-> names[k], start_index |-> MNT[names[k]].start_index,
         num_parameters |-> MNT[names[k]].num_parameters]]
        \o [k \in 1..Len(MDT) |-> [kind |-> "mdt", index |-> k - 1, line |-> MDT[k]]]

PrintTables ==
    /\ pc = "macro_tables"
    /\ pc' = "macro_main_pass_two"
    /\ cout' = cout \o MacroTableLines
    /\ UNCHANGED <<macroVars, pageVars, schedVars, asmVars>>

\* ---- pass_two ----
MacroPassTwoCall ==
    /\ pc = "macro_main_pass_two"
    /\ pc' = "macro_pass_two"
    /\ cout' = Append(cout, HeaderLine("macro_pass_two"))
    /\ output_txt' = <<>>
    /\ readPos' = 1
    /\ UNCHANGED <<macro_source, macroPos, in_macro, macro_name, formal_params,
                   formal_to_placeholder, MNT, MDT, MDT_IDX, intermediate_txt,
                   call_name, actual_map, current_mdt_idx, expansion_from,
                   pageVars, schedVars, asmVars>>

\* Create Actual Argument Map (ALA): actual_map["#" + i] = actual_params[i]
ActualMap(actual_params) ==
    [key \in {Placeholder(k - 1) : k \in 1..Len(actual_params)} |->
        actual_params[CHOOSE k \in 1..Len(actual_params) : Placeholder(k - 1) = key]]

\* MNT after the look-up of a line's opcode: MNT[opcode] is evaluated only
\* under if (MNT.count(opcode))
MntAfter(opcode) ==
    IF opcode \in DOMAIN MNT THEN Subscript(MNT, opcode, MNTEntry(0, 0)) ELSE MNT

ArgumentsMatchAlways(actual_params, entry) ==
    TRUE

\* if (actual_params.size() != entry.num_parameters) is the error branch
ArgumentsMatch(actual_params, entry) ==
    Len(actual_params) = entry.num_parameters

\* one iteration of while (getline(intermediate_file, line)), up to the
\* start of the expansion loop
MacroPassTwoLine ==
    /\ pc = "macro_pass_two"
    /\ readPos <= Len(intermediate_txt)
    /\ readPos' = readPos + 1
    /\ LET line == intermediate_txt[readPos]
           tokens == tokenize(line)
           parsed == parse_line(tokens)
           actual_params == extract_parameters(parsed.operand)
       IN
       IF tokens = <<>>
       THEN UNCHANGED <<pc, output_txt, call_name, actual_map, current_mdt_idx,
                        expansion_from, MNT>>
       ELSE /\ MNT' = MntAfter(parsed.opcode)
            /\ IF parsed.opcode \in DOMAIN MNT
               THEN IF ~ArgumentsMatch(actual_params, MNT[parsed.opcode])
                    THEN /\ output_txt' = Append(output_txt, ArgumentError(parsed.opcode))
                         /\ UNCHANGED <<pc, call_name, actual_map, current_mdt_idx, expansion_from>>
                    ELSE /\ pc' = "macro_expand"
                         /\ call_name' = parsed.opcode
                         /\ actual_map' = ActualMap(actual_params)
                         /\ current_mdt_idx' = MNT[parsed.opcode].start_index + 1
                         /\ expansion_from' = Len(output_txt)
                         /\ UNCHANGED output_txt
               ELSE /\ output_txt' = Append(output_txt, line)
                    /\ UNCHANGED <<pc, call_name, actual_map, current_mdt_idx, expansion_from>>
    /\ UNCHANGED <<cout, macro_source, macroPos, in_macro, macro_name, formal_params,
                   formal_to_placeholder, MDT, MDT_IDX, intermediate_txt,
                   pageVars, schedVars, asmVars>>

\* the MDT line ends the expansion
IsMend(md_line) ==
    LET md_tokens == tokenize(md_line) IN
    \/ Len(md_tokens) > 1 /\ md_tokens[2] = MEND
    \/ Len(md_tokens) = 1 /\ md_tokens[1] = MEND

\* one iteration of while (true) in the expansion of a call
MacroExpandStep ==
    /\ pc = "macro_expand"
    /\ IF current_mdt_idx >= Len(MDT)
       THEN /\ output_txt' = Append(output_txt, IndexError(call_name))
            /\ pc' = "macro_pass_two"
            /\ UNCHANGED current_mdt_idx
       ELSE IF IsMend(MDT[current_mdt_idx + 1])
       THEN /\ pc' = "macro_pass_two"
            /\ UNCHANGED <<output_txt, current_mdt_idx>>
       ELSE /\ output_txt' = Append(output_txt,
                                    ReplaceEach(MDT[current_mdt_idx + 1], actual_map))
            /\ current_mdt_idx' = current_mdt_idx + 1
            /\ UNCHANGED pc
    /\ UNCHANGED <<cout, macro_source, macroPos, in_macro, macro_name, formal_params,
                   formal_to_placeholder, MNT, MDT, MDT_IDX, intermediate_txt, readPos,
                   call_name, actual_map, expansion_from, pageVars, schedVars, asmVars>>

MacroPassTwoReturn ==
    /\ pc = "macro_pass_two"
    /\ readPos > Len(intermediate_txt)
    /\ pc' = "macro_done"
    /\ cout' = cout \o <<[kind |-> "pass_two_complete"], [kind |-> "simulation_complete"]>>
    /\ UNCHANGED <<macroVars, pageVars, schedVars, asmVars>>

MacroNext ==
    \/ MacroPassOneCall \/ MacroPassOneStep \/ MacroPassOneReturn
    \/ PrintTables
    \/ MacroPassTwoCall \/ MacroPassTwoLine \/ MacroExpandStep \/ MacroPassTwoReturn

SpecMacro == MacroInit /\ [][MacroNext]_vars

(***************************************************************************)
(* The macroprocessor: the claims.                                         *)
(***************************************************************************)
ParsedSource(k) == parse_line(tokenize(macro_source[k]))

\* the source line of the definition in force for the macro `name`: its
\* last MACRO header
HeaderOf(name) ==
    CHOOSE h \in 1..Len(macro_source) :
        /\ ParsedSource(h).opcode = MACRO
        /\ ParsedSource(h).label = name
        /\ \A k \in (h + 1)..Len(macro_source) :
              ~(ParsedSource(k).opcode = MACRO /\ ParsedSource(k).label = name)

\* the non-blank source lines after line h up to, not including, the next MEND
RECURSIVE BodyFrom(_)
BodyFrom(k) ==
    IF k > Len(macro_source) \/ ParsedSource(k).opcode = MEND THEN <<>>
    ELSE IF tokenize(macro_source[k]) = <<>> THEN BodyFrom(k + 1)
    ELSE <<macro_source[k]>> \o BodyFrom(k + 1)

\* a MEND closes the definition that starts at line h
Closed(h) == \E k \in (h + 1)..Len(macro_source) : ParsedSource(k).opcode = MEND

\* line with every occurrence of every formal parameter replaced by the
\* actual argument of the same position
RECURSIVE Instantiate(_, _, _)
Instantiate(line, formals, actuals) ==
    LET hits == {k \in 1..Len(formals) : StartsWith(line, formals[k])}
        k == CHOOSE m \in hits : \A n \in hits : m <= n
    IN IF line = <<>> THEN <<>>
       ELSE IF hits = {} THEN <<line[1]>> \o Instantiate(Tail(line), formals, actuals)
       ELSE actuals[k]
                \o Instantiate(SubSeq(line, Len(formals[k]) + 1, Len(line)), formals, actuals)

\* the expansion the call at hand should produce
ExpectedExpansion(name, actuals) ==
    LET h == HeaderOf(name)
        formals == extract_parameters(ParsedSource(h).operand)
        body == BodyFrom(h + 1)
    IN [k \in 1..Len(body) |-> Instantiate(body[k], formals, actuals)]

\* the lines written to output.txt since the expansion at hand began
Emitted == SubSeq(output_txt, expansion_from + 1, Len(output_txt))

\* the call the expansion at hand belongs to
CallLine == parse_line(tokenize(intermediate_txt[readPos - 1]))

\* the expansion loop meets the MEND of the definition
ExpansionEnds ==
    /\ pc = "macro_expand"
    /\ current_mdt_idx < Len(MDT)
    /\ IsMend(MDT[current_mdt_idx + 1])

\* C16: when the expansion of a call with the right number of arguments
\* reaches the MEND of the macro's definition, the emitted lines are exactly
\* the body lines of that definition, in order, with every formal parameter
\* replaced by the corresponding actual argument; CALC X,Y of the sample
\* gives "X ADD Y" and "SUB Y".
C16_ExpansionIsInstantiatedBody ==
    ExpansionEnds =>
        /\ Closed(HeaderOf(call_name)) =>
              Emitted = ExpectedExpansion(call_name, extract_parameters(CallLine.operand))
        /\ (macro_source = SampleMacroSource /\ Str(intermediate_txt[readPos - 1]) = "\tCALC\tX,Y")
              => [k \in 1..Len(Emitted) |-> Str(Emitted[k])] = <<"X\tADD\tY", "\tSUB\tY">>

\* pass_one is about to process a non-blank source line
AtMacroSourceLine ==
    /\ pc = "macro_pass_one"
    /\ macroPos <= Len(macro_source)
    /\ tokenize(macro_source[macroPos]) # <<>>

\* the line at hand belongs to a macro definition: it is a MACRO header, or a
\* definition is open (body line or MEND)
InsideDefinition == ParsedSource(macroPos).opcode = MACRO \/ in_macro

\* C17: Pass I sends every non-blank source line to exactly one place: a
\* line of a macro definition (MACRO header, body line, MEND) is appended to
\* the MDT and not to the intermediate output; a line outside any open
\* definition is appended unchanged to the intermediate output, in source
\* order, and not to the MDT.
C17_PassOneRouting ==
    [][ AtMacroSourceLine =>
          IF InsideDefinition
          THEN /\ Len(MDT') = Len(MDT) + 1
               /\ SubSeq(MDT', 1, Len(MDT)) = MDT
               /\ intermediate_txt' = intermediate_txt
          ELSE /\ intermediate_txt' = Append(intermediate_txt, macro_source[macroPos])
               /\ MDT' = MDT ]_vars

\* pass_two is about to read a non-blank line of the intermediate file
AtMacroIntermediateLine ==
    /\ pc = "macro_pass_two"
    /\ readPos <= Len(intermediate_txt)
    /\ tokenize(intermediate_txt[readPos]) # <<>>

NextCall == parse_line(tokenize(intermediate_txt[readPos]))

\* the number of arguments of the call at hand, counted on the operand text
ArgumentCount(operand) ==
    Len(extract_parameters(operand))

\* C18: a call of a known macro with a number of arguments different from
\* the recorded number of parameters writes exactly one error line and no
\* MDT line, and the pass goes on with the next intermediate line; a line
\* whose opcode is no known macro is written unchanged.
C18_ArgumentCountMismatch ==
    [][ AtMacroIntermediateLine =>
          /\ (/\ NextCall.opcode \in DOMAIN MNT
              /\ ArgumentCount(NextCall.operand) # MNT[NextCall.opcode].num_parameters)
                => /\ output_txt' = Append(output_txt, ArgumentError(NextCall.opcode))
                   /\ pc' = "macro_pass_two"
                   /\ readPos' = readPos + 1
          /\ NextCall.opcode \notin DOMAIN MNT
                => /\ output_txt' = Append(output_txt, intermediate_txt[readPos])
                   /\ pc' = "macro_pass_two"
                   /\ readPos' = readPos + 1 ]_vars

\* a mismatching call has been answered with the error line and the pass has
\* then written a further line
C18_Witness ==
    /\ pc = "macro_done"
    /\ \E k \in 1..(Len(output_txt) - 1) :
          /\ StartsWith(output_txt[k], <<"*", "*", "E", "R", "R", "O", "R", ":", " ", "I">>)
          /\ output_txt[k + 1] \in Range(intermediate_txt)

(***************************************************************************)
(* The two two-pass programs side by side: a run is a run of the assembler *)
(* or a run of the macroprocessor.                                         *)
(***************************************************************************)
TwoPassInit == AsmInit \/ MacroInit

TwoPassNext == AsmNext \/ MacroNext

SpecTwoPass == TwoPassInit /\ [][TwoPassNext]_vars

\* the assembler is past pass_one: main prints the tables and runs pass_two
AfterAsmPassOne == pc \in {"main_tables", "main_pass_two", "pass_two"}

\* the macroprocessor is past pass_one
AfterMacroPassOne ==
    pc \in {"macro_tables", "macro_main_pass_two", "macro_pass_two", "macro_expand"}

\* C19: once Pass I has returned, no step of either program changes a table
\* of Pass I: the assembler keeps SYMTAB, LITTAB and the intermediate list,
\* the macroprocessor keeps MNT and MDT, whatever the operands and opcodes
\* Pass II meets.
C19_PassTwoKeepsTables ==
    [][ /\ AfterAsmPassOne
            => /\ SYMTAB' = SYMTAB
               /\ LITTAB' = LITTAB
               /\ intermediate_file' = intermediate_file
        /\ AfterMacroPassOne
            => /\ MNT' = MNT
               /\ MDT' = MDT ]_vars

\* pass_two has met an operand that is in neither table while SYMTAB holds a
\* label, and has written the object program
C19_Witness ==
    /\ pc = "done"
    /\ object_program # <<>>
    /\ SYMTAB # << >>
    /\ \E k \in 1..Len(intermediate_file) :
          /\ intermediate_file[k].opcode \in DOMAIN OPTAB
          /\ intermediate_file[k].operand # <<>>
          /\ intermediate_file[k].operand \notin DOMAIN SYMTAB \cup DOMAIN LITTAB

(***************************************************************************)
(* The macroprocessor: the tables of the sample run.                       *)
(***************************************************************************)
\* the Macro Name Table of the expected console output: name, start index,
\* number of parameters
DocumentedMNT ==
    (<<"C", "A", "L", "C">> :> MNTEntry(2, 2))
        @@ (<<"I", "N", "I", "T">> :> MNTEntry(7, 3))

\* the Macro Definition Table of the expected console output, one entry per
\* printed index 0..20
DocumentedMDT ==
    << <<"M", "A", "I", "N", "\t", "S", "T", "A", "R", "T", "\t", "1", "0", "0", "0">>,
       <<"L", "O", "O", "P", "\t", "L", "O", "A", "D", "\t", "X">>,
       <<"C", "A", "L", "C", "\t", "M", "A", "C", "R", "O", "\t", "&", "A", ",", "&", "B">>,
       <<"&", "A", "\t", "A", "D", "D", "\t", "#", "0">>,
       <<"\t", "S", "U", "B", "\t", "#", "1">>,
       <<"M", "E", "N", "D">>,
       <<"\t", "S", "T", "O", "R", "E", "\t", "Y">>,
       <<"I", "N", "I", "T", "\t", "M", "A", "C", "R", "O", "\t", "&", "X", ",", "&", "Y", ",", "&", "Z">>,
       <<"#", "0", "\t", "L", "O", "A", "D", "\t", "#", "1">>,
       <<"\t", "S", "T", "O", "R", "E", "\t", "#", "2">>,
       <<"M", "E", "N", "D">>,
       <<"\t", "I", "N", "I", "T", "\t", "T", "E", "M", "P", ",", "O", "N", "E", ",", "T", "W", "O">>,
       <<"\t", "C", "A", "L", "C", "\t", "X", ",", "Y">>,
       <<"\t", "C", "A", "L", "C", "\t", "Y", ",", "Z">>,
       <<"X", "\t", "R", "E", "S", "W", "\t", "1">>,
       <<"Y", "\t", "R", "E", "S", "W", "\t", "1">>,
       <<"Z", "\t", "R", "E", "S", "W", "\t", "1">>,
       <<"T", "E", "M", "P", "\t", "R", "E", "S", "W", "\t", "1">>,
       <<"O", "N", "E", "\t", "W", "O", "R", "D", "\t", "1">>,
       <<"T", "W", "O", "\t", "W", "O", "R", "D", "\t", "2">>,
       <<"\t", "E", "N", "D", "\t">> >>

\* pass_one has returned to main
MacroPassOneReturned ==
    pc \in {"macro_tables", "macro_main_pass_two", "macro_pass_two", "macro_expand",
            "macro_done"}

\* C20: after Pass I on the built-in sample source the MNT lists CALC with
\* start index 2 and 2 parameters and INIT with start index 7 and 3
\* parameters, and the MDT holds the 21 lines, indexed 0 to 20, of the
\* expected console output.
C20_SampleTables ==
    (MacroPassOneReturned /\ macro_source = SampleMacroSource)
        => /\ MNT = DocumentedMNT
           /\ Len(MDT) = 21
           /\ MDT = DocumentedMDT

(***************************************************************************)
(* CPU scheduling: the ready queue of roundRobin.                          *)
(***************************************************************************)
\* roundRobin is about to run an iteration of its loop
AtRoundRobinIteration == pc = "rr" /\ RoundRobinMore(Local)

\* the position of process m in the queue rdy (0: not in it)
PositionIn(rdy, m) ==
    IF \E k \in 1..Len(rdy) : rdy[k] = m
    THEN CHOOSE k \in 1..Len(rdy) : rdy[k] = m
    ELSE 0

\* the processes that have arrived by clock and were not admitted before
Arriving(clock) == {m \in 1..Len(p) : vis[m] = 0 /\ p[m].at <= clock}

\* the process dispatched by the iteration (0: the CPU idles)
Dispatched == gantt'[Len(gantt')].idx

\* process m arrives during the slice of the iteration: after its start and
\* no later than its end
ArrivesDuringSlice(m) == vis[m] = 0 /\ p[m].at > t /\ p[m].at <= t'

\* the process that ran in the iteration is not finished and is queued again
RequeuedAfterSlice == Dispatched # 0 /\ rt'[Dispatched] > 0

\* both admission scans of an iteration: what has arrived by the clock before
\* the dispatch takes part in it, and what has arrived by the end of the
\* slice is admitted
AdmittedBeforeAndAfter ==
    /\ (ready = <<>> /\ Arriving(t) = {}) <=> Dispatched = 0
    /\ Dispatched # 0 =>
          Dispatched = (IF ready # <<>> THEN Head(ready)
                        ELSE CHOOSE m \in Arriving(t) : \A o \in Arriving(t) : m <= o)
    /\ Dispatched # 0 =>
          /\ \A m \in 1..Len(p) : p[m].at <= t' => vis'[m] = 1
          /\ \A m \in Arriving(t') : m # Dispatched => PositionIn(ready', m) > 0

\* C21 as stated: both admission scans, and a process that arrives during a
\* slice stands behind the re-queued entry of the process that ran in it.
C21_ArrivalBehindRequeue ==
    [][ AtRoundRobinIteration =>
          /\ AdmittedBeforeAndAfter
          /\ RequeuedAfterSlice =>
                \A m \in 1..Len(p) : ArrivesDuringSlice(m) =>
                    PositionIn(ready', Dispatched) < PositionIn(ready', m) ]_vars

\* C21 amended: newly arrived processes are admitted before each dispatch and
\* again right after the slice, before the process that ran is queued again;
\* a process that arrives during a slice stands ahead of the re-queued entry
\* of the process that ran in it, and that entry is the last of the queue.
C21_ArrivalAheadOfRequeue ==
    [][ AtRoundRobinIteration =>
          /\ AdmittedBeforeAndAfter
          /\ RequeuedAfterSlice =>
                /\ PositionIn(ready', Dispatched) = Len(ready')
                /\ \A m \in 1..Len(p) : ArrivesDuringSlice(m) =>
                      /\ PositionIn(ready', m) > 0
                      /\ PositionIn(ready', m) < PositionIn(ready', Dispatched) ]_vars

\* a process has arrived during the slice of an unfinished process and both
\* are in the queue
C21_Witness ==
    /\ pc = "rr"
    /\ gantt # <<>>
    /\ LET last == gantt[Len(gantt)] IN
          /\ last.idx # 0
          /\ rt[last.idx] > 0
          /\ PositionIn(ready, last.idx) > 0
          /\ \E m \in 1..Len(p) :
                /\ p[m].at > last.from
                /\ p[m].at <= last.to
                /\ PositionIn(ready, m) > 0

(***************************************************************************)
(* The assembler: the literal pool.                                        *)
(***************************************************************************)
\* pass_one has processed an END line and returned
EndProcessed ==
    /\ PassOneReturned
    /\ \E k \in 1..Len(source_code) : source_code[k][2] = END

\* the position of the END line that stopped pass_one
EndIndex == CHOOSE k \in 1..Len(source_code) :
                /\ source_code[k][2] = END
                /\ \A o \in 1..(k - 1) : source_code[o][2] # END

\* the literal operands pass_one has met (a START line is left before the
\* literal step)
LiteralOperands ==
    {source_code[k][3] : k \in {o \in 1..EndIndex :
                                  /\ source_code[o][2] # START
                                  /\ StartsWith(source_code[o][3], <<"=">>)}}

\* the address and the end of the range of a literal, as numbers
LiteralAddress(lit) == stoi(LITTAB[lit].first, 16).value

LiteralEnd(lit) == LiteralAddress(lit) + LITTAB[lit].second

\* the location counter recorded for the END line
EndLineCounter == intermediate_file[Len(intermediate_file)].location_counter

\* C22: every distinct literal operand has one literal table entry with its
\* length, however often it is referenced; once END is processed the
\* literals lie one after the other from the END line's location counter on,
\* in table order, their ranges are pairwise disjoint, and the program
\* length reaches to the end of the last one.
C22_LiteralPool ==
    /\ PassOneReturned =>
          \A k \in 1..Len(intermediate_file) :
             LET operand == intermediate_file[k].operand IN
             (StartsWith(operand, <<"=">>) /\ intermediate_file[k].opcode # START)
                => /\ operand \in DOMAIN LITTAB
                   /\ LITTAB[operand].second = LiteralLength(operand)
    /\ EndProcessed =>
          LET keys == KeysInOrder(DOMAIN LITTAB) IN
          /\ DOMAIN LITTAB = LiteralOperands
          /\ intermediate_file[Len(intermediate_file)].opcode = END
          /\ \A k \in 1..Len(keys) :
                /\ LITTAB[keys[k]].first # <<>>
                /\ LITTAB[keys[k]].first =
                      (IF k = 1 THEN EndLineCounter
                       ELSE toHex(LiteralEnd(keys[k - 1]), 4))
          /\ \A a, b \in 1..Len(keys) :
                a < b => LiteralEnd(keys[a]) <= LiteralAddress(keys[b])
          /\ keys # <<>> =>
                /\ LiteralEnd(keys[Len(keys)]) = start_address + program_len
                /\ stoi(EndLineCounter, 16).value >= start_address
          /\ keys = <<>> => stoi(EndLineCounter, 16).value = start_address + program_len

\* pass_one has ended on END with two literals in the table, both of them
\* with an address and a length
C22_Witness ==
    /\ EndProcessed
    /\ Cardinality(DOMAIN LITTAB) = 2
    /\ \A lit \in DOMAIN LITTAB : LITTAB[lit].first # <<>> /\ LITTAB[lit].second > 0

(***************************************************************************)
(* The assembler: reservations and the text records.                       *)
(***************************************************************************)
\* the object code Pass II generates for an intermediate line
ObjectCodeOf(line) ==
    IF line.opcode \in DOMAIN OPTAB THEN InstructionCode(line)
    ELSE IF line.opcode \in {WORD, BYTE} THEN hexToByteCode(line.operand)
    ELSE <<>>

IsReservation(line) == line.opcode \in {RESW, RESB}

\* the records of the object program that begin with the letter kind
RecordsOfKind(kind) == {k \in 1..Len(object_program) : object_program[k][1] = kind}

\* C23: a RESW or RESB line adds no object bytes and closes the text record
\* in progress if it is not empty; the next line that generates bytes opens
\* a new text record that starts at that line's location counter; after the
\* last line a non-empty record in progress is written, and then the one end
\* record.
C23_ReservationsCloseRecord ==
    /\ [][ AtIntermediateLine =>
             LET line == intermediate_file[intPos] IN
             /\ IsReservation(line) =>
                   /\ object_program' =
                         (IF current_text_record_code # <<>>
                          THEN Append(object_program,
                                      TextRecord(text_record_start_addr,
                                                 current_text_record_code))
                          ELSE object_program)
                   /\ current_text_record_code' = <<>>
             /\ (current_text_record_code = <<>> /\ ObjectCodeOf(line) # <<>>) =>
                   /\ text_record_start_addr' = line.location_counter
                   /\ current_text_record_code' = ObjectCodeOf(line) ]_vars
    /\ [][ (pc = "pass_two" /\ pc' = "done") =>
             object_program' =
                 object_program
                   \o (IF current_text_record_code # <<>>
                       THEN <<TextRecord(text_record_start_addr, current_text_record_code)>>
                       ELSE <<>>)
                   \o << <<"E">> \o start_addr >> ]_vars
    /\ [](pc = "done" /\ object_program # <<>> =>
             /\ RecordsOfKind("E") = {Len(object_program)}
             /\ \A k \in 2..Len(intermediate_file) :
                   (/\ IsReservation(intermediate_file[k - 1])
                    /\ ObjectCodeOf(intermediate_file[k]) # <<>>)
                      => \E r \in RecordsOfKind("T") :
                            /\ RecordStart(object_program[r])
                                  = intermediate_file[k].location_counter
                            /\ StartsWith(RecordCode(object_program[r]),
                                          ObjectCodeOf(intermediate_file[k])))

\* the object program of a source in which a reservation stands between two
\* lines that generate bytes: two text records
C23_Witness ==
    /\ pc = "done"
    /\ Cardinality(RecordsOfKind("T")) = 2
    /\ Len(intermediate_file) = 3
    /\ IsReservation(intermediate_file[2])
    /\ ObjectCodeOf(intermediate_file[1]) # <<>>
    /\ ObjectCodeOf(intermediate_file[3]) # <<>>

(***************************************************************************)
(* The macroprocessor: placeholders in the stored body lines.              *)
(***************************************************************************)
\* pass_one is about to store a body line of the open definition
AtBodyLine ==
    /\ AtMacroSourceLine
    /\ in_macro
    /\ ParsedSource(macroPos).opcode \notin {MACRO, MEND}

\* the positional placeholders #0, #1, ... of a parameter list
PlaceholdersOf(formals) == [k \in 1..Len(formals) |-> Placeholder(k - 1)]

\* C24: every body line Pass I stores in the MDT is the source line with
\* every occurrence of each formal parameter of the open macro replaced by
\* #i, i the zero-based position of the parameter in the MACRO operand
\* list; no formal parameter name remains in the stored line.
C24_PlaceholdersEverywhere ==
    [][ AtBodyLine =>
          /\ MDT' = Append(MDT, Instantiate(macro_source[macroPos], formal_params,
                                            PlaceholdersOf(formal_params)))
          /\ \A k \in 1..Len(formal_params) :
                Find(MDT'[Len(MDT')], formal_params[k]) = 0 ]_vars

(***************************************************************************)
(* The macroprocessor: the end of an expansion.                            *)
(***************************************************************************)
\* the expansion loop of pass_two is about to run an iteration
AtExpansionStep == pc = "macro_expand"

\* the MDT entry the expansion is at (the table is indexed from 0)
EntryAtHand == MDT[current_mdt_idx + 1]

\* a MEND line: a line whose opcode is MEND
IsMendLine(line) == parse_line(tokenize(line)).opcode = MEND

\* C25: the expansion of a call ends after finitely many steps. Every step
\* either ends it or moves one entry further in the MDT: on a MEND line the
\* expansion stops and nothing is written; with the index past the end of
\* the MDT one error line is written and the expansion of this call stops;
\* in both cases the pass goes on with the next intermediate line; on any
\* other entry one line is written and the index moves on by one.
C25_ExpansionStops ==
    [][ AtExpansionStep =>
          /\ current_mdt_idx >= MNT[call_name].start_index + 1
          /\ readPos' = readPos
          /\ IF current_mdt_idx >= Len(MDT)
             THEN /\ output_txt' = Append(output_txt, IndexError(call_name))
                  /\ pc' = "macro_pass_two"
             ELSE IF IsMendLine(EntryAtHand)
             THEN /\ output_txt' = output_txt
                  /\ pc' = "macro_pass_two"
             ELSE /\ Len(output_txt') = Len(output_txt) + 1
                  /\ current_mdt_idx' = current_mdt_idx + 1
                  /\ pc' = "macro_expand" ]_vars

(***************************************************************************)
(* Page replacement: the frame set.                                        *)
(***************************************************************************)
PolicyNames == {"fifo", "lru", "optimal"}

\* C26: right after fifo, lru or optimal has processed a reference, hit or
\* fault, the referenced page is resident, for every reference string and
\* every capacity >= 1.
C26_ReferencedPageResident ==
    [][ \A name \in PolicyNames :
          (AtReference(name) /\ capacity >= 1) => Resident(frames', pages[i]) ]_vars

NoDuplicates(seq) == \A a, b \in 1..Len(seq) : seq[a] = seq[b] => a = b

\* C27: in every state of fifo, lru and optimal the frame set holds at most
\* capacity pages and no page twice; in fifo the queue holds exactly the
\* resident pages, each once, in the order in which they were loaded, also
\* after a page that had been evicted is loaded again.
C27_FrameSetAndQueue ==
    /\ pc \in PolicyNames =>
          /\ Len(frames) <= capacity
          /\ NoDuplicates(frames)
    /\ pc = "fifo" =>
          /\ Range(q) = Range(frames)
          /\ Len(q) = Len(frames)
          /\ NoDuplicates(q)
          /\ \A a, b \in 1..Len(q) : a < b => loadedAt[q[a]] < loadedAt[q[b]]

\* fifo holds a page that was resident before, was evicted and has been
\* loaded again
C27_Witness ==
    /\ pc = "fifo"
    /\ capacity = 2
    /\ Len(frames) = 2
    /\ \E f \in Range(frames) :
          \E k \in 1..(loadedAt[f] - 1) : pages[k] = f

(***************************************************************************)
(* CPU scheduling with burst times from 0 on.                              *)
(***************************************************************************)
\* the clock value at which the exploration of a loop stops: past every time
\* by which the work of any explored list can be done
ClockCap == MaxArrival + MaxProcs * MaxBurst + 2

\* main's process list: any list of up to MaxProcs processes whose burst
\* times may be 0
SchedAnyBurstInit ==
    /\ PageIdle
    /\ AsmIdle
    /\ MacroIdle
    /\ pc = "main"
    /\ cout = <<>>
    /\ \E n \in 1..MaxProcs :
          \E f \in [1..n -> (0..MaxArrival) \X (0..MaxBurst) \X (1..MaxProcs)] :
              procs = [m \in 1..n |-> Process(m, f[m][1], f[m][2], f[m][3])]
    /\ quantum = 0
    /\ p = <<>>
    /\ t = 0
    /\ done = 0
    /\ pos = 1
    /\ vis = <<>>
    /\ rt = <<>>
    /\ ready = <<>>
    /\ gantt = <<>>

\* an iteration of sjf's loop, explored up to ClockCap
SjfStepCapped == t < ClockCap /\ SjfStep

SchedAnyBurstNext ==
    \/ FcfsCall \/ FcfsStep \/ FcfsReturn
    \/ SjfCall \/ SjfStepCapped \/ SjfReturn
    \/ PriorityCall \/ PriorityStep \/ PriorityReturn
    \/ RoundRobinCall \/ RoundRobinStep \/ RoundRobinReturn

SpecSchedAnyBurst == SchedAnyBurstInit /\ [][SchedAnyBurstNext]_vars

\* a policy is about to run an iteration of its loop
AtPolicyIteration ==
    \/ pc = "fcfs" /\ FcfsMore(Local)
    \/ pc = "sjf" /\ SjfMore(Local)
    \/ pc = "priority" /\ PriorityMore(Local)
    \/ pc = "rr" /\ RoundRobinMore(Local)

\* the iteration brings the loop closer to its end: a process is completed,
\* or remaining work is done, or the clock ticks towards the arrival of a
\* process that is still to come
IterationProgresses ==
    \/ done' > done
    \/ pos' > pos
    \/ \E m \in 1..Len(p) : p'[m].rt < p[m].rt
    \/ \E m \in 1..Len(rt) : rt'[m] < rt[m]
    \/ t' = t + 1 /\ \E m \in 1..Len(p) : p[m].at > t

\* C28: for process lists with arrival and burst times >= 0 and a quantum
\* >= 1 each policy ends: every iteration of its loop brings it closer to
\* the end (completions, remaining work and the arrivals still to come are
\* finite), and when the policy returns every process has a completion time,
\* no earlier than its arrival plus its burst.
C28_PoliciesTerminate ==
    /\ [][ AtPolicyIteration => IterationProgresses ]_vars
    /\ [](pc = "done" =>
            \A m \in 1..Len(p) : p[m].ct >= p[m].at + p[m].bt)

(***************************************************************************)
(* CPU scheduling: no idle time while work is waiting.                     *)
(***************************************************************************)
\* some process runs during the time unit from u to u + 1
BusyAt(u) ==
    \E k \in 1..Len(gantt) :
        gantt[k].idx # 0 /\ gantt[k].from <= u /\ u < gantt[k].to

\* the largest completion time of a list
RECURSIVE LargestCompletion(_)
LargestCompletion(ps) ==
    IF ps = <<>> THEN 0 ELSE Max(ps[1].ct, LargestCompletion(Tail(ps)))

\* the largest completion times the four policies can reach for the list ps
Makespans(ps) ==
    {LargestCompletion(FcfsRun(Entry(srt)).p) : srt \in SortedByArrival(ps)}
        \cup {LargestCompletion(SjfRun(SjfEntry(ps)).p)}
        \cup {LargestCompletion(PriorityRun(Entry(srt)).p) : srt \in SortedByArrival(ps)}
        \cup {LargestCompletion(RoundRobinRun(Entry(ps), qt).p) : qt \in Quanta}

\* C29: with burst times >= 1 and a quantum >= 1, when a policy has
\* returned there is no time unit in which the CPU was idle while a process
\* that had arrived was unfinished; the largest completion time is the one
\* every policy reaches for the list; every completion time is at least
\* arrival plus burst, so no waiting time is negative.
C29_NoIdleWhileWorkWaits ==
    pc = "done" =>
        /\ \A u \in 0..(t - 1) :
              ~BusyAt(u) => \A m \in 1..Len(p) : ~(p[m].at <= u /\ u < p[m].ct)
        /\ Makespans(procs) = {LargestCompletion(p)}
        /\ \A m \in 1..Len(p) :
              /\ p[m].ct >= p[m].at + p[m].bt
              /\ p[m].wt >= 0

\* a policy has returned from a list in which the CPU first idles until the
\* processes arrive and one process then waits for the other
C29_Witness ==
    /\ pc = "done"
    /\ Len(p) >= 2
    /\ ~BusyAt(0)
    /\ \E m \in 1..Len(p) : p[m].wt > 0
    /\ \E m \in 1..Len(p) : p[m].wt = 0

(***************************************************************************)
(* CPU scheduling: the ready queue of roundRobin at a dispatch point.      *)
(***************************************************************************)
\* the elements of a set of numbers in ascending order
RECURSIVE Ascending(_)
Ascending(S) ==
    IF S = {} THEN <<>>
    ELSE LET least == CHOOSE m \in S : \A o \in S : m <= o
         IN <<least>> \o Ascending(S \ {least})

\* the ready queue at the dispatch point of the iteration at hand: the queue
\* after the admission scan at the top of the loop
DispatchQueue == ready \o Ascending(Arriving(t))

\* process m has not been completed: it has not yet had the slice that
\* brings it to its whole burst
Unfinished(m) ==
    ~(/\ UnitsRun(gantt, m) = p[m].bt
      /\ \E k \in 1..Len(gantt) : gantt[k].idx = m)

Occurrences(seq, m) == Cardinality({k \in 1..Len(seq) : seq[k] = m})

\* C30: at every dispatch point of roundRobin each process that has arrived
\* by the current clock and is unfinished is in the ready queue exactly
\* once, and no finished and no not-yet-arrived process is in it.
C30_ReadyQueueAtDispatch ==
    AtRoundRobinIteration =>
        \A m \in 1..Len(p) :
            IF p[m].at <= t /\ Unfinished(m)
            THEN Occurrences(DispatchQueue, m) = 1
            ELSE Occurrences(DispatchQueue, m) = 0

\* a dispatch point after some slices at which two processes are queued and
\* one of them has already run
C30_Witness ==
    /\ AtRoundRobinIteration
    /\ Len(DispatchQueue) = 2
    /\ \E m \in 1..Len(p) : UnitsRun(gantt, m) > 0 /\ Unfinished(m)

(***************************************************************************)
(* The assembler: the addresses of the bytes in the text records.          *)
(***************************************************************************)
\* the program consists of machine instructions, WORD, BYTE, RESW and RESB
\* lines, with at most a START line at its head and END lines
PlainProgram ==
    \A k \in 1..Len(source_code) :
        \/ source_code[k][2] \in DOMAIN OPTAB \cup {WORD, BYTE, RESW, RESB, END}
        \/ k = 1 /\ source_code[k][2] = START

HexValue(digits) == stoi(digits, 16).value

\* C31: when Pass II adds the object bytes of a line to the text record in
\* progress, they stand at record start address + number of bytes before
\* them in the record, and that address is the location counter Pass I gave
\* the line; so Pass II emits for each line as many bytes as Pass I advanced
\* the location counter for it.
C31_BytesAtLocationCounter ==
    [][ (AtIntermediateLine /\ PlainProgram
            /\ ObjectCodeOf(intermediate_file[intPos]) # <<>>) =>
          LET line == intermediate_file[intPos]
              code == ObjectCodeOf(line)
          IN /\ Len(current_text_record_code') >= Len(code)
             /\ Suffix(current_text_record_code', Len(code)) = code
             /\ HexValue(text_record_start_addr')
                   + (Len(current_text_record_code') - Len(code)) \div 2
                 = HexValue(line.location_counter) ]_vars

(***************************************************************************)
(* Page replacement: the totals of the three policies compared.            *)
(***************************************************************************)
\* the totals written so far, in the order of the calls of main: fifo, lru,
\* optimal
ReportedTotals ==
    LET at == {k \in 1..Len(cout) : cout[k].kind = "total"}
    IN [n \in 1..Cardinality(at) |->
          cout[CHOOSE k \in at : Cardinality({m \in at : m <= k}) = n].faults]

DistinctPages == Cardinality(Range(pages))

\* C32: for every reference string and every capacity >= 1, the total that
\* optimal reports is no greater than the total of fifo and no greater than
\* the total of lru on the same input, and the total of each policy is at
\* least the number of distinct pages of the string.
C32_OptimalFewestFaults ==
    (pc = "done" /\ capacity >= 1) =>
        /\ Len(ReportedTotals) = 3
        /\ ReportedTotals[3] <= ReportedTotals[1]
        /\ ReportedTotals[3] <= ReportedTotals[2]
        /\ \A n \in 1..3 : ReportedTotals[n] >= DistinctPages

\* with at least two frames, optimal reports strictly fewer faults than fifo
\* and than lru, and more faults than there are distinct pages
C32_Witness ==
    /\ pc = "done"
    /\ capacity >= 2
    /\ Len(ReportedTotals) = 3
    /\ ReportedTotals[3] < ReportedTotals[1]
    /\ ReportedTotals[3] < ReportedTotals[2]
    /\ ReportedTotals[3] > DistinctPages
    /\ pages # SamplePages

====
